---- MODULE Spec2Model ----
(***************************************************************************)
(* Model of the Relay command line utility (Relay.cpp, EasyRegistry.cpp).  *)
(*                                                                         *)
(* Strings are sequences of one-character strings, so that the regular     *)
(* expressions of Relay.cpp, the comma separated alias list and the        *)
(* fixed-size buffers of EasyRegistry.cpp are modelled character by        *)
(* character.                                                              *)
(***************************************************************************)
EXTENDS Integers, Sequences, FiniteSets, TLC

VARIABLES
    registry,   \* HKCU\SOFTWARE\WWES\Relay "Aliases": [present, value]
    regOK,      \* which registry API calls of EasyRegistry.cpp succeed: get is
                \* RegGetValueW, create is RegCreateKeyW with RegSetValueExW for
                \* the default in ReadRegSZ, set is the same pair in WriteRegSZ
    before,     \* the registry value before the last alias operation
    prev,       \* the alias operation before the last one
    last,       \* the last alias operation, with what it returned
    order,      \* aliases by their last assignment, newest first
    argv,       \* main(): argv[1..] of the last run, what the relay library answers,
                \* and the locals module and queries as the argument loop left them
    error,      \* main(): the exit code of the last invocation
    calls,      \* main(): calls made to usb_relay_device.dll, in order
    stdout,     \* main(): what the last invocation printed
    inst,       \* two concurrent instances: pc and locals of each, the last writer
    rt,         \* an alias list, its serialization and what is parsed back
    pc          \* main(): "idle" before a process starts, "exited" after it

vars == <<registry, regOK, before, prev, last, order, argv, error, calls, stdout, inst, rt, pc>>

\* enum class ERROR_CODES
ERROR_NONE == 0

ERROR_SYNTAX == -1

ERROR_NO_DEVICES == -2

ERROR_BAD_SERNUM == -3

ERROR_NO_DRIVER_INIT == -4

ERROR_INVALID_CHANNEL == -5

(***************************************************************************)
(* Characters and strings                                                  *)
(***************************************************************************)
Digits == {"0", "1", "2", "3", "4", "5", "6", "7", "8", "9"}

UpperSeq == <<"A", "B", "C", "D", "E", "F", "G", "H", "I", "J", "K", "L", "M",
              "N", "O", "P", "Q", "R", "S", "T", "U", "V", "W", "X", "Y", "Z">>

LowerSeq == <<"a", "b", "c", "d", "e", "f", "g", "h", "i", "j", "k", "l", "m",
              "n", "o", "p", "q", "r", "s", "t", "u", "v", "w", "x", "y", "z">>

Upper == {UpperSeq[i] : i \in DOMAIN UpperSeq}

Lower == {LowerSeq[i] : i \in DOMAIN LowerSeq}

\* ::toupper on one character
toupper(c) ==
    IF c \in Lower
    THEN UpperSeq[CHOOSE i \in DOMAIN LowerSeq : LowerSeq[i] = c]
    ELSE c

\* the string as it was typed
ToUpperStr_AsTyped(s) == s

\* std::transform(s.begin(), s.end(), s.begin(), ::toupper)
ToUpperStr(s) == [i \in DOMAIN s |-> toupper(s[i])]

\* the first n characters of s (all of s when it is shorter)
Take(s, n) == IF Len(s) <= n THEN s ELSE SubSeq(s, 1, n)

\* the string made of n copies of the character c
Rep(c, n) == [i \in 1..n |-> c]

Min(S) == CHOOSE x \in S : \A y \in S : x <= y

(***************************************************************************)
(* Regular expressions of Relay.cpp (all compiled with regex::icase)       *)
(***************************************************************************)
\* [A-Z0-9] under icase
AlnumChars == Upper \cup Lower \cup Digits

\* T_ALIAS_NAME "[_#~@A-Z0-9][-_#~@A-Z0-9]*": first character, other characters
AliasFirstChars == {"_", "#", "~", "@"} \cup AlnumChars

\* the class without '-'
AliasRestChars_NoDash == AliasFirstChars

AliasRestChars == {"-"} \cup AliasFirstChars

\* regex_sernum "^([A-Z0-9]{5})$"
regex_sernum(s) == Len(s) = 5 /\ \A i \in 1..5 : s[i] \in AlnumChars

\* regex_alias_name "^(T_ALIAS_NAME)$"
regex_alias_name(s) ==
    /\ Len(s) >= 1
    /\ s[1] \in AliasFirstChars
    /\ \A i \in 2..Len(s) : s[i] \in AliasRestChars

\* The last position of the maximal run of alias characters that starts at i
\* (the greedy match of [-_#~@A-Z0-9]* after the first character).
AliasRunEnd(s, i) ==
    LET stops == {k \in (i + 1)..Len(s) : s[k] \notin AliasRestChars}
    IN  IF stops = {} THEN Len(s) ELSE Min(stops) - 1

\* regex_alias_registry "(T_ALIAS_NAME)[=:](T_SERNUM),?" matched at position i.
\* '=' and ':' are not alias characters, so the greedy alias can only end at
\* the end of its run: backtracking to a shorter alias never succeeds.
RegistryMatchAt(s, i) ==
    /\ s[i] \in AliasFirstChars
    /\ LET e == AliasRunEnd(s, i)
       IN  /\ e + 6 <= Len(s)
           /\ s[e + 1] \in {"=", ":"}
           /\ \A k \in (e + 2)..(e + 6) : s[k] \in AlnumChars

NoMatch == [found |-> FALSE, m1 |-> <<>>, m2 |-> <<>>, suffix |-> <<>>]

\* regex_search(s, smMatch, regex_alias_registry): the leftmost match at or
\* after position i.  A start inside a run that failed shares the end of that
\* run and fails too, so the scan goes on behind the run.
RECURSIVE RegistrySearchFrom(_, _)
RegistrySearchFrom(s, i) ==
    IF i > Len(s) THEN NoMatch
    ELSE IF s[i] \notin AliasFirstChars THEN RegistrySearchFrom(s, i + 1)
    ELSE LET e == AliasRunEnd(s, i)
         IN  IF RegistryMatchAt(s, i)
             THEN LET fin == IF e + 7 <= Len(s) /\ s[e + 7] = ","
                             THEN e + 7 ELSE e + 6
                  IN  [found  |-> TRUE,
                       m1     |-> SubSeq(s, i, e),
                       m2     |-> SubSeq(s, e + 2, e + 6),
                       suffix |-> SubSeq(s, fin + 1, Len(s))]
             ELSE RegistrySearchFrom(s, e + 1)

regex_alias_registry(s) == RegistrySearchFrom(s, 1)

(***************************************************************************)
(* EasyRegistry.cpp                                                        *)
(***************************************************************************)
MAX_SZ_RESULT_LENGTH == 255

\* sizeof(wchar_t)
WCharSize == 2

\* the registry value before the first run
AbsentValue == [present |-> FALSE, value |-> <<>>]

\* every registry API call succeeds
AllOK == [get |-> TRUE, create |-> TRUE, set |-> TRUE]

\* mbstowcs_s(&nconv, szwResult, szValue, MAX_SZ_RESULT_LENGTH): converts at
\* most MAX_SZ_RESULT_LENGTH characters and terminates the result.
mbstowcs_s(s) == Take(s, MAX_SZ_RESULT_LENGTH)

\* RegGetValueW with cbData = MAX_SZ_RESULT_LENGTH * sizeof(wchar_t): succeeds
\* when the value exists and fits the buffer with its terminator, otherwise
\* ERROR_FILE_NOT_FOUND or ERROR_MORE_DATA.
RegGetValueW(r, ok) ==
    /\ ok.get
    /\ r.present
    /\ (Len(r.value) + 1) * WCharSize <= MAX_SZ_RESULT_LENGTH * WCharSize

\* ReadRegSZ called without a default: a failed read is left at that
ReadRegSZ_NoDefault(r, ok, szDefault) ==
    IF RegGetValueW(r, ok)
    THEN [bResult |-> TRUE, strResult |-> r.value, reg |-> r, writes |-> 0]
    ELSE [bResult |-> FALSE, strResult |-> <<>>, reg |-> r, writes |-> 0]

\* ReadRegSZ(szKey, szSetting, szResult, szDefault) with szDefault != NULL:
\* reads the value; when the read fails it creates the value with the default.
\* writes counts the RegSetValueExW calls that succeeded.
ReadRegSZ(r, ok, szDefault) ==
    IF RegGetValueW(r, ok)
    THEN [bResult |-> TRUE, strResult |-> r.value, reg |-> r, writes |-> 0]
    ELSE IF ok.create
    THEN [bResult   |-> TRUE,
          strResult |-> mbstowcs_s(szDefault),
          reg       |-> [present |-> TRUE, value |-> mbstowcs_s(szDefault)],
          writes    |-> 1]
    ELSE [bResult |-> FALSE, strResult |-> <<>>, reg |-> r, writes |-> 0]

\* WriteRegSZ(szKey, szSetting, szValue)
WriteRegSZ(r, ok, szValue) ==
    IF ok.set
    THEN [bResult |-> TRUE,
          reg     |-> [present |-> TRUE, value |-> mbstowcs_s(szValue)],
          writes  |-> 1]
    ELSE [bResult |-> FALSE, reg |-> r, writes |-> 0]

(***************************************************************************)
(* Alias functions of Relay.cpp                                            *)
(***************************************************************************)
\* RemoveAlias, the entry that is kept: "," unless the list is empty, then
\* alias "=" sernum
AppendEntry(strAliasList, m1, m2) ==
    (IF strAliasList # <<>> THEN strAliasList \o <<",">> ELSE strAliasList)
        \o m1 \o <<"=">> \o m2

\* an assignment that leaves the list as it was read
PrependEntry_KeepList(alias, sernum, strAliasList) == strAliasList

\* AssignAlias, the list that is written: the new entry, "," unless the list
\* read is empty, the list read
PrependEntry(alias, sernum, strAliasList) ==
    alias \o <<"=">> \o sernum
        \o (IF strAliasList = <<>> THEN <<>> ELSE <<",">>)
        \o strAliasList

\* the loop of RemoveAlias: strIterList is scanned, the entries whose alias
\* differs are appended to strAliasList
RECURSIVE RemoveLoop(_, _, _, _)
RemoveLoop(alias, strIterList, strAliasList, bFound) ==
    LET Pass(sm) ==
            IF ~sm.found
            THEN [strAliasList |-> strAliasList, bFound |-> bFound]
            ELSE IF alias = sm.m1
            THEN RemoveLoop(alias, sm.suffix, strAliasList, TRUE)
            ELSE RemoveLoop(alias, sm.suffix,
                            AppendEntry(strAliasList, sm.m1, sm.m2), bFound)
    IN  Pass(regex_alias_registry(strIterList))

\* RemoveAlias that writes the rebuilt list whether or not the alias was found
RemoveAlias_AlwaysWrite(aliasArg, r, ok) ==
    LET Written(rd, w) == [reg |-> w.reg, writes |-> rd.writes + w.writes]
        Rebuilt(rd, lp) == Written(rd, WriteRegSZ(rd.reg, ok, lp.strAliasList))
        Read(rd) ==
            IF rd.bResult
            THEN Rebuilt(rd, RemoveLoop(ToUpperStr(aliasArg), rd.strResult, <<>>, FALSE))
            ELSE [reg |-> rd.reg, writes |-> rd.writes]
    IN  Read(ReadRegSZ(r, ok, <<>>))

\* RemoveAlias(alias): the registry afterwards and the number of writes.
\* Read: after ReadRegSZ; Rebuilt: after the loop; Written: after WriteRegSZ.
RemoveAlias(aliasArg, r, ok) ==
    LET Written(rd, w) == [reg |-> w.reg, writes |-> rd.writes + w.writes]
        Rebuilt(rd, lp) ==
            IF lp.bFound
            THEN Written(rd, WriteRegSZ(rd.reg, ok, lp.strAliasList))
            ELSE [reg |-> rd.reg, writes |-> rd.writes]
        Read(rd) ==
            IF rd.bResult
            THEN Rebuilt(rd, RemoveLoop(ToUpperStr(aliasArg), rd.strResult, <<>>, FALSE))
            ELSE [reg |-> rd.reg, writes |-> rd.writes]
    IN  Read(ReadRegSZ(r, ok, <<>>))

\* AssignAlias without the call of RemoveAlias
AssignAlias_NoRemove(aliasArg, sernumArg, r, ok) ==
    LET Written(rd, w) == [reg |-> w.reg, writes |-> rd.writes + w.writes]
        Read(rd) ==
            Written(rd, WriteRegSZ(rd.reg, ok,
                        IF rd.bResult
                        THEN PrependEntry(ToUpperStr(aliasArg), ToUpperStr(sernumArg),
                                          rd.strResult)
                        ELSE rd.strResult))
    IN  Read(ReadRegSZ(r, ok, <<>>))

\* AssignAlias that puts the new entry behind the list
AssignAlias_Append(aliasArg, sernumArg, r, ok) ==
    LET Written(rm, rd, w) ==
            [reg |-> w.reg, writes |-> rm.writes + rd.writes + w.writes]
        Read(rm, rd) ==
            Written(rm, rd, WriteRegSZ(rd.reg, ok,
                        IF rd.bResult
                        THEN rd.strResult
                                 \o (IF rd.strResult = <<>> THEN <<>> ELSE <<",">>)
                                 \o ToUpperStr(aliasArg) \o <<"=">> \o ToUpperStr(sernumArg)
                        ELSE rd.strResult))
        Removed(rm) == Read(rm, ReadRegSZ(rm.reg, ok, <<>>))
    IN  Removed(RemoveAlias(ToUpperStr(aliasArg), r, ok))

\* AssignAlias(alias, sernum).  Removed: after RemoveAlias(alias); Read: after
\* ReadRegSZ, the new entry goes in front of the list; Written: after
\* WriteRegSZ.
AssignAlias(aliasArg, sernumArg, r, ok) ==
    LET Written(rm, rd, w) ==
            [reg |-> w.reg, writes |-> rm.writes + rd.writes + w.writes]
        Read(rm, rd) ==
            Written(rm, rd, WriteRegSZ(rd.reg, ok,
                        IF rd.bResult
                        THEN PrependEntry(ToUpperStr(aliasArg), ToUpperStr(sernumArg),
                                          rd.strResult)
                        ELSE rd.strResult))
        Removed(rm) == Read(rm, ReadRegSZ(rm.reg, ok, <<>>))
    IN  Removed(RemoveAlias(ToUpperStr(aliasArg), r, ok))

\* the loop of ListAlias: one <<alias, sernum>> pair per printed line
RECURSIVE ListLoop(_)
ListLoop(strAliasList) ==
    LET Pass(sm) == IF ~sm.found THEN <<>>
                    ELSE <<(<<sm.m1, sm.m2>>)>> \o ListLoop(sm.suffix)
    IN  Pass(regex_alias_registry(strAliasList))

\* ListAlias(): lines is empty exactly when "No aliases defined" is printed
ListAlias(r, ok) ==
    LET Read(rd) == [lines  |-> IF rd.bResult THEN ListLoop(rd.strResult) ELSE <<>>,
                     reg    |-> rd.reg,
                     writes |-> rd.writes]
    IN  Read(ReadRegSZ(r, ok, <<>>))

\* the loop of GetAliasSernum: the serial number of the first entry whose
\* alias equals the token, <<>> when no entry matches
RECURSIVE ResolveLoop(_, _)
ResolveLoop(alias_or_sernum, strAliasList) ==
    LET Pass(sm) == IF ~sm.found THEN [bFound |-> FALSE, sernum |-> <<>>]
                    ELSE IF alias_or_sernum = sm.m1
                    THEN [bFound |-> TRUE, sernum |-> sm.m2]
                    ELSE ResolveLoop(alias_or_sernum, sm.suffix)
    IN  Pass(regex_alias_registry(strAliasList))

\* GetAliasSernum without the fallback to the token itself
GetAliasSernum_NoFallback(tokenArg, r, ok) ==
    LET Looked(alias_or_sernum, rd, lp) ==
            [sernum |-> IF lp.bFound THEN lp.sernum ELSE <<>>,
             reg    |-> rd.reg,
             writes |-> rd.writes]
        Read(alias_or_sernum, rd) ==
            Looked(alias_or_sernum, rd,
                   IF rd.bResult THEN ResolveLoop(alias_or_sernum, rd.strResult)
                   ELSE [bFound |-> FALSE, sernum |-> <<>>])
    IN  Read(ToUpperStr(tokenArg), ReadRegSZ(r, ok, <<>>))

\* GetAliasSernum(alias_or_sernum).  Read: after ReadRegSZ; Looked: after the
\* loop over the entries, with the fallback to the token as a serial number.
GetAliasSernum(tokenArg, r, ok) ==
    LET Looked(alias_or_sernum, rd, lp) ==
            [sernum |-> IF lp.bFound THEN lp.sernum
                        ELSE IF regex_sernum(alias_or_sernum) THEN alias_or_sernum
                        ELSE <<>>,
             reg    |-> rd.reg,
             writes |-> rd.writes]
        Read(alias_or_sernum, rd) ==
            Looked(alias_or_sernum, rd,
                   IF rd.bResult THEN ResolveLoop(alias_or_sernum, rd.strResult)
                   ELSE [bFound |-> FALSE, sernum |-> <<>>])
    IN  Read(ToUpperStr(tokenArg), ReadRegSZ(r, ok, <<>>))

(***************************************************************************)
(* Inputs                                                                  *)
(***************************************************************************)
\* serial numbers of the README
SN_6QMBS == <<"6", "Q", "M", "B", "S">>

SN_5XARZ == <<"5", "X", "A", "R", "Z">>

Sernums == {SN_6QMBS, SN_5XARZ}

\* the longest alias whose single entry ALIAS=SERNUM can still be read back,
\* and the shortest one whose entry cannot
AliasAtLimit == Rep("Z", MAX_SZ_RESULT_LENGTH - 7)

AliasOverLimit == Rep("Z", MAX_SZ_RESULT_LENGTH - 6)

Alias_1 == <<"#", "1">>

Alias_2 == <<"#", "2">>

\* alias names accepted by regex_alias_assign: "#1", one that has the shape of
\* a serial number, and the two long ones
Aliases == {Alias_1, SN_6QMBS, AliasAtLimit, AliasOverLimit}

\* tokens handed to GetAliasSernum: aliases, serial numbers, and "#2", which
\* is never assigned
ResolveTokens == {Alias_1, SN_6QMBS, AliasOverLimit, SN_5XARZ, Alias_2}

(***************************************************************************)
(* Alias operations, one after the other in one process                    *)
(***************************************************************************)
\* no operation yet
NoOp == [op |-> "None", alias |-> <<>>, sernum |-> <<>>, ret |-> <<>>,
         writes |-> 0, reassign |-> FALSE]

\* order after alias was assigned: alias first, the others as they were
Promote(o, alias) == <<alias>> \o SelectSeq(o, LAMBDA x : x # alias)

MainVarsUnchanged == UNCHANGED <<argv, error, calls, stdout, inst, rt, pc>>

\* what was called, without what it answered
Called(o) == [op |-> o.op, alias |-> o.alias, sernum |-> o.sernum,
              reassign |-> o.reassign]

\* AssignAlias(alias, sernum).  reassign: the operation right before was an
\* assignment of the same alias to another serial number.
DoAssign(alias, sernum) ==
    \E res \in {AssignAlias(alias, sernum, registry, regOK)} :
        /\ registry' = res.reg
        /\ before' = registry
        /\ prev' = Called(last)
        /\ last' = [op |-> "Assign", alias |-> alias, sernum |-> sernum,
                    ret |-> <<>>, writes |-> res.writes,
                    reassign |-> /\ last.op = "Assign"
                                 /\ ToUpperStr(last.alias) = ToUpperStr(alias)
                                 /\ ToUpperStr(last.sernum) # ToUpperStr(sernum)]
        /\ order' = Promote(order, ToUpperStr(alias))
        /\ UNCHANGED regOK
        /\ MainVarsUnchanged

\* RemoveAlias(alias)
DoRemove(alias) ==
    \E res \in {RemoveAlias(alias, registry, regOK)} :
        /\ registry' = res.reg
        /\ before' = registry
        /\ prev' = Called(last)
        /\ last' = [op |-> "Remove", alias |-> alias, sernum |-> <<>>,
                    ret |-> <<>>, writes |-> res.writes,
                    reassign |-> FALSE]
        /\ UNCHANGED <<regOK, order>>
        /\ MainVarsUnchanged

\* ListAlias(): ret is the sequence of printed <<alias, sernum>> lines
DoList ==
    \E res \in {ListAlias(registry, regOK)} :
        /\ registry' = res.reg
        /\ before' = registry
        /\ prev' = Called(last)
        /\ last' = [op |-> "List", alias |-> <<>>, sernum |-> <<>>,
                    ret |-> res.lines, writes |-> res.writes,
                    reassign |-> FALSE]
        /\ UNCHANGED <<regOK, order>>
        /\ MainVarsUnchanged

\* GetAliasSernum(token): ret is the returned serial number
DoResolve(token) ==
    \E res \in {GetAliasSernum(token, registry, regOK)} :
        /\ registry' = res.reg
        /\ before' = registry
        /\ prev' = Called(last)
        /\ last' = [op |-> "Resolve", alias |-> token, sernum |-> <<>>,
                    ret |-> res.sernum, writes |-> res.writes,
                    reassign |-> FALSE]
        /\ UNCHANGED <<regOK, order>>
        /\ MainVarsUnchanged

\* the instances that can run side by side, none of them started
Instances == {1, 2}

IdleInstance == [pc |-> "idle", op |-> "None", alias |-> <<>>, sernum |-> <<>>,
                 str |-> <<>>]

NoInstances == [p |-> [i \in Instances |-> IdleInstance], writer |-> 0]

NoRoundTrip == [pc |-> "idle", list |-> <<>>, saved |-> <<>>, loaded |-> <<>>]

\* no run of main() yet
NoRun == [args |-> <<>>, env |-> <<>>, module |-> <<>>, queries |-> <<>>]

\* a fresh installation (no value yet) or an empty alias list
Init ==
    /\ registry \in {AbsentValue, [present |-> TRUE, value |-> <<>>]}
    /\ regOK = AllOK
    /\ before = registry
    /\ prev = Called(NoOp)
    /\ last = NoOp
    /\ order = <<>>
    /\ argv = NoRun
    /\ error = ERROR_NONE
    /\ calls = <<>>
    /\ stdout = <<>>
    /\ inst = NoInstances
    /\ rt = NoRoundTrip
    /\ pc = "idle"

Next ==
    \/ \E a \in Aliases, s \in Sernums : DoAssign(a, s)
    \/ \E a \in Aliases : DoRemove(a)
    \/ DoList
    \/ \E t \in ResolveTokens : DoResolve(t)

Spec == Init /\ [][Next]_vars

(***************************************************************************)
(* The persisted list, read off the stored string without the regular      *)
(* expressions of the program                                              *)
(***************************************************************************)
\* the pieces of s between the occurrences of the character c
RECURSIVE Split(_, _)
Split(s, c) ==
    LET at == {i \in 1..Len(s) : s[i] = c}
    IN  IF at = {} THEN <<s>>
        ELSE <<SubSeq(s, 1, Min(at) - 1)>> \o Split(SubSeq(s, Min(at) + 1, Len(s)), c)

\* the pieces ALIAS=SERNUM of a stored string, each as <<ALIAS, SERNUM>>
\* (a piece without '=' is an alias without serial number)
Pairs(s) ==
    IF s = <<>> THEN <<>>
    ELSE LET pieces == Split(s, ",")
         IN  [i \in DOMAIN pieces |->
                 LET kv == Split(pieces[i], "=")
                 IN  <<kv[1], IF Len(kv) >= 2 THEN kv[2] ELSE <<>> >>]

\* the aliases that have an entry in the stored string
AliasesOf(s) == {Pairs(s)[i][1] : i \in DOMAIN Pairs(s)}

\* a string of the grammar of section 6: upper-case alias, '=', upper-case
\* serial number of 5 characters
UpperAlnum == Upper \cup Digits

IsEntry(p) ==
    /\ Len(p[1]) >= 1
    /\ p[1][1] \in {"_", "#", "~", "@"} \cup UpperAlnum
    /\ \A i \in 2..Len(p[1]) : p[1][i] \in {"-", "_", "#", "~", "@"} \cup UpperAlnum
    /\ Len(p[2]) = 5
    /\ \A i \in 1..5 : p[2][i] \in UpperAlnum

\* ALIAS=SERNUM(,ALIAS=SERNUM)*
WellFormed(s) ==
    /\ s # <<>>
    /\ \A i \in DOMAIN Split(s, ",") : Len(Split(Split(s, ",")[i], "=")) = 2
    /\ \A i \in DOMAIN Pairs(s) : IsEntry(Pairs(s)[i])

\* what a read of the store hands to the alias functions: the entries of the
\* value, none when the value is absent or does not fit the read buffer
Loaded(r) ==
    IF r.present /\ Len(r.value) < MAX_SZ_RESULT_LENGTH THEN Pairs(r.value) ELSE <<>>

\* position of alias in the sequence o (0 when it is not there)
IndexOf(o, alias) ==
    IF \E i \in DOMAIN o : o[i] = alias
    THEN CHOOSE i \in DOMAIN o : o[i] = alias
    ELSE 0

(***************************************************************************)
(* Properties of the alias operations                                      *)
(***************************************************************************)
\* C1 (as claimed): Assign(A,S1), Assign(A,S2) with S1 # S2 and then
\* Resolve(A), one right after the other, make Resolve return S2.
C1_LastAssignmentWins ==
    (/\ prev.op = "Assign"
     /\ prev.reassign
     /\ last.op = "Resolve"
     /\ ToUpperStr(last.alias) = ToUpperStr(prev.alias))
        => last.ret = ToUpperStr(prev.sernum)

\* C2: no alias appears in more than one entry of the persisted list.
C2_UniqueAliases ==
    \A i, j \in DOMAIN Pairs(registry.value) :
        Pairs(registry.value)[i][1] = Pairs(registry.value)[j][1] => i = j

\* C2 witness: an alias was assigned again and the list has two entries
C2_Witness ==
    /\ last.op = "Assign"
    /\ last.reassign
    /\ Len(Pairs(registry.value)) = 2
    /\ WellFormed(registry.value)

\* C3 (as claimed): Remove(A) of an alias without entry leaves the store as it
\* was and writes nothing, whether or not the value exists.
C3_RemoveAbsentIsNoOp ==
    (/\ last.op = "Remove"
     /\ ToUpperStr(last.alias) \notin AliasesOf(before.value))
        => (registry = before /\ last.writes = 0)

\* C3 (amended): Remove(A) of an alias without entry leaves a value that
\* exists and can be read as it was and writes nothing; a value that does not
\* exist, or is too long to be read, is written once, as the empty string.
C3_RemoveAbsentAmended ==
    (/\ last.op = "Remove"
     /\ ToUpperStr(last.alias) \notin AliasesOf(before.value))
        => IF before.present /\ Len(before.value) < MAX_SZ_RESULT_LENGTH
           THEN registry = before /\ last.writes = 0
           ELSE registry = [present |-> TRUE, value |-> <<>>] /\ last.writes = 1

\* C3 witness: a Remove of an alias without entry on a list with an entry
C3_Witness ==
    /\ last.op = "Remove"
    /\ ToUpperStr(last.alias) \notin AliasesOf(before.value)
    /\ before.present
    /\ Len(Pairs(before.value)) >= 1
    /\ registry = before

\* C4 (as claimed): Resolve(S) returns S for a valid serial number S that no
\* entry of the persisted list has as its serial number.
C4_ResolveUnboundSernum ==
    (/\ last.op = "Resolve"
     /\ regex_sernum(last.alias)
     /\ \A i \in DOMAIN Pairs(before.value) :
            Pairs(before.value)[i][2] # ToUpperStr(last.alias))
        => last.ret = ToUpperStr(last.alias)

\* C4 (amended): Resolve(S) returns S for a valid serial number S that is not
\* itself the alias of an entry of the persisted list.
C4_ResolveUnaliasedSernum ==
    (/\ last.op = "Resolve"
     /\ regex_sernum(last.alias)
     /\ ToUpperStr(last.alias) \notin AliasesOf(before.value))
        => last.ret = ToUpperStr(last.alias)

\* C4 witness: a serial number was resolved on a list that has entries, none
\* of them with that alias
C4_Witness ==
    /\ last.op = "Resolve"
    /\ regex_sernum(last.alias)
    /\ Len(Loaded(before)) >= 1
    /\ ToUpperStr(last.alias) \notin AliasesOf(before.value)
    /\ last.ret = ToUpperStr(last.alias)

\* C5 (as claimed): Resolve(token) returns the serial number of the first
\* entry of the persisted list whose alias is the upper-cased token, also for
\* a token shaped like a serial number; without such an entry the upper-cased
\* token when it is a valid serial number, and the empty string otherwise.
C5_AliasListFirst ==
    last.op = "Resolve" =>
        LET L    == Pairs(before.value)
            t    == ToUpperStr(last.alias)
            hits == {i \in DOMAIN L : L[i][1] = t}
        IN  last.ret = IF hits # {} THEN L[Min(hits)][2]
                       ELSE IF Len(t) = 5 /\ \A i \in 1..5 : t[i] \in UpperAlnum THEN t
                       ELSE <<>>

\* C6: List prints the entries newest assignment first: of two printed
\* entries the upper one was assigned later.
C6_NewestFirst ==
    last.op = "List" =>
        \A i, j \in DOMAIN last.ret :
            i < j => /\ IndexOf(order, last.ret[i][1]) > 0
                     /\ IndexOf(order, last.ret[i][1]) < IndexOf(order, last.ret[j][1])

\* C6 witness: two entries are listed and the upper one is the alias that was
\* assigned right before, after it had been assigned once already
C6_Witness ==
    /\ last.op = "List"
    /\ Len(last.ret) >= 2
    /\ prev.op = "Assign"
    /\ prev.reassign
    /\ last.ret[1][1] = ToUpperStr(prev.alias)

\* C8 (as claimed): the persisted string is empty or ALIAS=SERNUM(,ALIAS=SERNUM)*
C8_FormatInvariant ==
    registry.present => (registry.value = <<>> \/ WellFormed(registry.value))

(***************************************************************************)
(* Serialization of an alias list and parsing it back                      *)
(***************************************************************************)
MaxEntries == 3

Alias_AB == <<"A", "-", "B">>

Alias_x1 == <<"x", "@", "1">>

\* alias names for the lists: with '#', with '-', with '@' and a lower-case
\* letter, and one shaped like a serial number
ListAliases == {Alias_1, Alias_AB, Alias_x1, SN_6QMBS}

\* the sequences of at most n different elements of S
RECURSIVE DistinctSeqs(_, _)
DistinctSeqs(S, n) ==
    IF n = 0 THEN {<<>>}
    ELSE LET shorter == DistinctSeqs(S, n - 1)
         IN  shorter \cup
             UNION {{Append(p, x) : x \in S \ {p[i] : i \in DOMAIN p}} :
                        p \in {q \in shorter : Len(q) = n - 1}}

\* the serialization: the entries joined as RemoveAlias joins the entries it
\* keeps; names[i] is the alias of entry i, sn[i] its serial number
RECURSIVE Serialize(_, _, _)
Serialize(names, sn, n) ==
    IF n = 0 THEN <<>>
    ELSE AppendEntry(Serialize(names, sn, n - 1), names[n], sn[n])

InitRoundTrip ==
    /\ registry = [present |-> TRUE, value |-> <<>>]
    /\ regOK = AllOK
    /\ before = registry
    /\ prev = Called(NoOp)
    /\ last = NoOp
    /\ order = <<>>
    /\ argv = NoRun
    /\ error = ERROR_NONE
    /\ calls = <<>>
    /\ stdout = <<>>
    /\ inst = NoInstances
    /\ pc = "idle"
    /\ \E names \in DistinctSeqs(ListAliases, MaxEntries) :
         \E sn \in [DOMAIN names -> Sernums] :
            rt = [pc |-> "list",
                  list |-> [i \in DOMAIN names |-> <<names[i], sn[i]>>],
                  saved |-> <<>>, loaded |-> <<>>]

\* the list is written as a string
Save ==
    /\ rt.pc = "list"
    /\ rt' = [rt EXCEPT !.pc = "saved",
                        !.saved = Serialize([i \in DOMAIN rt.list |-> rt.list[i][1]],
                                            [i \in DOMAIN rt.list |-> rt.list[i][2]],
                                            Len(rt.list))]
    /\ UNCHANGED <<registry, regOK, before, prev, last, order,
                   argv, error, calls, stdout, inst, pc>>

\* the string is parsed as ListAlias parses it
Load ==
    /\ rt.pc = "saved"
    /\ rt' = [rt EXCEPT !.pc = "loaded", !.loaded = ListLoop(rt.saved)]
    /\ UNCHANGED <<registry, regOK, before, prev, last, order,
                   argv, error, calls, stdout, inst, pc>>

NextRoundTrip == Save \/ Load

SpecRoundTrip == InitRoundTrip /\ [][NextRoundTrip]_vars

\* C7: an alias list with unique aliases that is serialized and parsed back
\* is the list again, entry by entry in the same order.
C7_RoundTrip == rt.pc = "loaded" => rt.loaded = rt.list

\* C7 witness: a list of MaxEntries entries, an alias with '-' among them,
\* came back as it was
C7_Witness ==
    /\ rt.pc = "loaded"
    /\ Len(rt.list) >= 3
    /\ \E i \in DOMAIN rt.list : rt.list[i][1] = Alias_AB
    /\ rt.loaded = rt.list

(***************************************************************************)
(* Regular expressions of main()                                           *)
(***************************************************************************)
Max(S) == CHOOSE x \in S : \A y \in S : x >= y

\* T_LOGIC_BITS "[0L1HX_.]" under icase
LogicBitChars == {"0", "L", "1", "H", "X", "_", ".", "l", "h", "x"}

\* T_CHANNELS "[1-8]"
ChannelChars == {"1", "2", "3", "4", "5", "6", "7", "8"}

\* regex_on_vals "^(?:ON|1|H|NO)$" and regex_off_vals "^(?:OFF|0|L|NC)$"
OnVals == {<<"O", "N">>, <<"1">>, <<"H">>, <<"N", "O">>}

OffVals == {<<"O", "F", "F">>, <<"0">>, <<"L">>, <<"N", "C">>}

regex_on_vals(s) == ToUpperStr(s) \in OnVals

regex_off_vals(s) == ToUpperStr(s) \in OffVals

\* regex_help "^(?:/|-)?(?:H|Help|\?)$"
regex_help(s) ==
    LET u    == ToUpperStr(s)
        body == IF Len(u) >= 1 /\ u[1] \in {"/", "-"} THEN Tail(u) ELSE u
    IN  body \in {<<"H">>, <<"H", "E", "L", "P">>, <<"?">>}

\* regex_enumerate "^(?:ENUM|ENUMerate|L|List)$"
regex_enumerate(s) ==
    ToUpperStr(s) \in {<<"E", "N", "U", "M">>,
                       <<"E", "N", "U", "M", "E", "R", "A", "T", "E">>,
                       <<"L">>, <<"L", "I", "S", "T">>}

\* regex_set "^SET$"
regex_set(s) == ToUpperStr(s) = <<"S", "E", "T">>

\* regex_query "^(?:Q|Query)$"
regex_query(s) == ToUpperStr(s) \in {<<"Q">>, <<"Q", "U", "E", "R", "Y">>}

\* regex_alias "^ALIAS$"
regex_alias(s) == ToUpperStr(s) = <<"A", "L", "I", "A", "S">>

NoSubMatch == [found |-> FALSE, m1 |-> <<>>, m2 |-> <<>>]

\* regex_sernum_pattern "^(T_ALIAS_NAME):(T_LOGIC_BITS{1,8})$": neither part
\* can hold a ':', so the ':' of a match is the only one of the token
regex_sernum_pattern(s) ==
    LET at == {i \in 1..Len(s) : s[i] = ":"}
    IN  IF Cardinality(at) # 1 THEN NoSubMatch
        ELSE LET p  == Min(at)
                 m1 == SubSeq(s, 1, p - 1)
                 m2 == SubSeq(s, p + 1, Len(s))
             IN  IF /\ regex_alias_name(m1)
                    /\ Len(m2) >= 1 /\ Len(m2) <= 8
                    /\ \A i \in DOMAIN m2 : m2[i] \in LogicBitChars
                 THEN [found |-> TRUE, m1 |-> m1, m2 |-> m2]
                 ELSE NoSubMatch

\* regex_ch_set "^(T_CHANNELS)=(T_LOGICS)$"
regex_ch_set(s) ==
    IF /\ Len(s) >= 3
       /\ s[1] \in ChannelChars
       /\ s[2] = "="
       /\ ToUpperStr(SubSeq(s, 3, Len(s))) \in OnVals \cup OffVals
    THEN [found |-> TRUE, m1 |-> <<s[1]>>, m2 |-> SubSeq(s, 3, Len(s))]
    ELSE NoSubMatch

\* regex_query_chlist "^(T_ALIAS_NAME)[@:](T_CHANNELS{1,8})$": the channel
\* list holds no '@' and no ':', so the separator of a match is the last
\* '@' or ':' of the token; an alias may hold '@' itself
regex_query_chlist(s) ==
    LET at == {i \in 1..Len(s) : s[i] \in {"@", ":"}}
    IN  IF at = {} THEN NoSubMatch
        ELSE LET p  == Max(at)
                 m1 == SubSeq(s, 1, p - 1)
                 m2 == SubSeq(s, p + 1, Len(s))
             IN  IF /\ regex_alias_name(m1)
                    /\ Len(m2) >= 1 /\ Len(m2) <= 8
                    /\ \A i \in DOMAIN m2 : m2[i] \in ChannelChars
                 THEN [found |-> TRUE, m1 |-> m1, m2 |-> m2]
                 ELSE NoSubMatch

\* regex_alias_assign "^\+?(T_ALIAS_NAME)[=:](T_SERNUM)$"
regex_alias_assign(s) ==
    LET body == IF Len(s) >= 1 /\ s[1] = "+" THEN Tail(s) ELSE s
        p    == Len(body) - 5
    IN  IF /\ p >= 2
           /\ body[p] \in {"=", ":"}
           /\ regex_alias_name(SubSeq(body, 1, p - 1))
           /\ regex_sernum(SubSeq(body, p + 1, Len(body)))
        THEN [found |-> TRUE, m1 |-> SubSeq(body, 1, p - 1),
              m2 |-> SubSeq(body, p + 1, Len(body))]
        ELSE NoSubMatch

\* regex_alias_remove "^-(T_ALIAS_NAME)$"
regex_alias_remove(s) ==
    IF Len(s) >= 2 /\ s[1] = "-" /\ regex_alias_name(Tail(s))
    THEN [found |-> TRUE, m1 |-> Tail(s), m2 |-> <<>>]
    ELSE NoSubMatch

\* get_state(string status) and get_state(char status)
get_state(status) ==
    IF regex_on_vals(status) THEN "H"
    ELSE IF regex_off_vals(status) THEN "L"
    ELSE "X"

(***************************************************************************)
(* main(): the argument loops                                              *)
(***************************************************************************)
DigitSeq == <<"0", "1", "2", "3", "4", "5", "6", "7", "8", "9">>

\* the digit counted from 1: '1' is channel 2
DigitValue_PlusOne(c) == CHOOSE i \in DOMAIN DigitSeq : DigitSeq[i] = c

\* c - '0' for a digit c
DigitValue(c) == (CHOOSE i \in DOMAIN DigitSeq : DigitSeq[i] = c) - 1

\* a check that finds every serial number
Is_Sernum_Present_Always(sernum, channels) == TRUE

\* Is_Sernum_Present(sernum, channels)
Is_Sernum_Present(sernum, channels) ==
    /\ sernum # <<>>
    /\ \E i \in DOMAIN channels : channels[i].sn = sernum

\* every module taken to have the 8 channels of the largest one
Relays_Get_NumChannels_Eight(sernum, channels) == 8

\* Relays_Get_NumChannels(sernum, channels): the first match, 0 without one
Relays_Get_NumChannels(sernum, channels) ==
    LET Found(hits) ==
            IF sernum # <<>> /\ hits # {} THEN channels[Min(hits)].channels ELSE 0
    IN  Found({i \in DOMAIN channels : channels[i].sn = sernum})

\* the map m put over the map the module has, channel by channel
SetModule_Merge(module, sn, m) ==
    [x \in DOMAIN module \cup {sn} |->
        IF x # sn THEN module[x]
        ELSE IF sn \in DOMAIN module
        THEN [c \in DOMAIN module[sn] \cup DOMAIN m |->
                 IF c \in DOMAIN m THEN m[c] ELSE module[sn][c]]
        ELSE m]

\* module[sn] = m
SetModule(module, sn, m) ==
    [x \in DOMAIN module \cup {sn} |-> IF x = sn THEN m ELSE module[x]]

\* MODULE{}
EmptyModule == [ch \in {} |-> "X"]

\* module[cur_sn]['1' + j] = get_state(pattern[j]) for every j
PatternModule(pattern) == [ch \in 1..Len(pattern) |-> get_state(<<pattern[ch]>>)]

\* length <= num_channels with length a size_t and num_channels an int
\* (pattern.length() <= num_channels, q.q.length() <= num_channels): the int
\* is converted to size_t, so a negative channel count becomes a value above
\* every length and the comparison holds
LengthWithin(length, num_channels) == num_channels < 0 \/ length <= num_channels

\* one pass of the loop over the arguments of SET.  Sernum: the argument is
\* an alias or a serial number; Pattern: SERNUM:bits; Channel: N=value.
SetArg(arg, st, channels, ok) ==
    LET Sernum(g) ==
            IF ~Is_Sernum_Present(g.sernum, channels)
            THEN [st EXCEPT !.cur_sn = g.sernum, !.reg = g.reg,
                            !.error = ERROR_BAD_SERNUM, !.error_sernum = g.sernum]
            ELSE [st EXCEPT !.cur_sn = g.sernum, !.reg = g.reg]
        Pattern(sm, g) ==
            IF Is_Sernum_Present(g.sernum, channels)
            THEN IF LengthWithin(Len(sm.m2), Relays_Get_NumChannels(g.sernum, channels))
                 THEN [st EXCEPT !.cur_sn = g.sernum, !.reg = g.reg,
                                 !.module = SetModule(st.module, g.sernum,
                                                      PatternModule(sm.m2))]
                 ELSE [st EXCEPT !.cur_sn = g.sernum, !.reg = g.reg,
                                 !.error = ERROR_INVALID_CHANNEL]
            ELSE [st EXCEPT !.cur_sn = g.sernum, !.reg = g.reg,
                            !.error = ERROR_BAD_SERNUM, !.error_sernum = g.sernum]
        Channel(sm, module, nch) ==
            IF nch <= Relays_Get_NumChannels(st.cur_sn, channels)
            THEN [st EXCEPT !.module =
                      SetModule(module, st.cur_sn,
                                [c \in DOMAIN module[st.cur_sn] \cup {nch} |->
                                    IF c = nch THEN get_state(sm.m2)
                                    ELSE module[st.cur_sn][c]])]
            ELSE [st EXCEPT !.module = module, !.error = ERROR_INVALID_CHANNEL]
        Matched(sp, cs) ==
            IF regex_alias_name(arg)
            THEN Sernum(GetAliasSernum(arg, st.reg, ok))
            ELSE IF sp.found
            THEN Pattern(sp, GetAliasSernum(sp.m1, st.reg, ok))
            ELSE IF cs.found
            THEN IF st.cur_sn # <<>>
                 THEN Channel(cs,
                              IF st.cur_sn \in DOMAIN st.module THEN st.module
                              ELSE SetModule(st.module, st.cur_sn, EmptyModule),
                              DigitValue(cs.m1[1]))
                 ELSE [st EXCEPT !.error = ERROR_SYNTAX]
            ELSE [st EXCEPT !.error = ERROR_SYNTAX]
    IN  Matched(regex_sernum_pattern(arg), regex_ch_set(arg))

\* for (i = 2; error == NONE && i <= num_args; ++i) of SET
RECURSIVE SetLoop(_, _, _, _, _)
SetLoop(args, i, st, channels, ok) ==
    IF st.error = ERROR_NONE /\ i <= Len(args)
    THEN SetLoop(args, i + 1, SetArg(args[i], st, channels, ok), channels, ok)
    ELSE st

\* one pass of the loop over the arguments of QUERY.  ChList: SERNUM@channels;
\* Sernum: the argument is an alias or a serial number.
QueryArg(arg, st, channels, ok) ==
    LET ChList(sm, g) ==
            IF Is_Sernum_Present(g.sernum, channels)
            THEN IF LengthWithin(Len(sm.m2), Relays_Get_NumChannels(g.sernum, channels))
                 THEN [st EXCEPT !.reg = g.reg,
                                 !.queries = Append(st.queries,
                                                    [sn |-> g.sernum, q |-> sm.m2])]
                 ELSE [st EXCEPT !.reg = g.reg, !.error = ERROR_INVALID_CHANNEL]
            ELSE [st EXCEPT !.reg = g.reg,
                            !.error = ERROR_BAD_SERNUM, !.error_sernum = g.sernum]
        Sernum(g) ==
            IF Is_Sernum_Present(g.sernum, channels)
            THEN [st EXCEPT !.reg = g.reg,
                            !.queries = Append(st.queries, [sn |-> g.sernum, q |-> <<>>])]
            ELSE [st EXCEPT !.reg = g.reg,
                            !.error = ERROR_BAD_SERNUM, !.error_sernum = g.sernum]
        Matched(sm) ==
            IF sm.found
            THEN ChList(sm, GetAliasSernum(sm.m1, st.reg, ok))
            ELSE IF regex_alias_name(arg)
            THEN Sernum(GetAliasSernum(arg, st.reg, ok))
            ELSE [st EXCEPT !.error = ERROR_SYNTAX]
    IN  Matched(regex_query_chlist(arg))

\* for (i = 2; error == NONE && i <= num_args; ++i) of QUERY
RECURSIVE QueryLoop(_, _, _, _, _)
QueryLoop(args, i, st, channels, ok) ==
    IF st.error = ERROR_NONE /\ i <= Len(args)
    THEN QueryLoop(args, i + 1, QueryArg(args[i], st, channels, ok), channels, ok)
    ELSE st

\* one pass of the loop over the arguments of ALIAS
AliasArg(arg, st, ok) ==
    LET Matched(sa, sr) ==
            IF sa.found
            THEN [st EXCEPT !.reg = AssignAlias(sa.m1, sa.m2, st.reg, ok).reg]
            ELSE IF sr.found
            THEN [st EXCEPT !.reg = RemoveAlias(sr.m1, st.reg, ok).reg]
            ELSE [st EXCEPT !.error = ERROR_SYNTAX]
    IN  Matched(regex_alias_assign(arg), regex_alias_remove(arg))

\* for (i = num_args; error == NONE && i >= 2; --i) of ALIAS
RECURSIVE AliasLoop(_, _, _, _)
AliasLoop(args, i, st, ok) ==
    IF st.error = ERROR_NONE /\ i >= 2
    THEN AliasLoop(args, i - 1, AliasArg(args[i], st, ok), ok)
    ELSE st

(***************************************************************************)
(* The relay functions: calls to usb_relay_device.dll                      *)
(***************************************************************************)
\* the characters of serial numbers in the order of their codes
CodeOrder == DigitSeq \o UpperSeq \o LowerSeq

Code(c) == CHOOSE i \in DOMAIN CodeOrder : CodeOrder[i] = c

\* a < b for std::string
RECURSIVE StrLess(_, _)
StrLess(a, b) ==
    IF b = <<>> THEN FALSE
    ELSE IF a = <<>> THEN TRUE
    ELSE IF Code(a[1]) # Code(b[1]) THEN Code(a[1]) < Code(b[1])
    ELSE StrLess(Tail(a), Tail(b))

\* the keys of a std::map<string, ...> in the order of its iteration
RECURSIVE SortedKeys(_)
SortedKeys(S) ==
    IF S = {} THEN <<>>
    ELSE LET least == CHOOSE x \in S : \A y \in S \ {x} : StrLess(x, y)
         IN  <<least>> \o SortedKeys(S \ {least})

Call(fn, sn, ch) == [fn |-> fn, sn |-> sn, ch |-> ch]

\* an enumeration that reports success without a module
Relays_Get_Sernums_Found(env) ==
    [bResult  |-> TRUE,
     channels |-> env.devices,
     calls    |-> <<Call("usb_relay_init", <<>>, 0),
                    Call("usb_relay_device_enumerate", <<>>, 0),
                    Call("usb_relay_exit", <<>>, 0)>>]

\* Relays_Get_Sernums(channels): the result of usb_relay_init is not looked at
Relays_Get_Sernums(env) ==
    [bResult  |-> env.devices # <<>>,
     channels |-> env.devices,
     calls    |-> <<Call("usb_relay_init", <<>>, 0),
                    Call("usb_relay_device_enumerate", <<>>, 0)>>
                  \o (IF env.devices # <<>>
                      THEN <<Call("usb_relay_device_free_enumerate", <<>>, 0)>>
                      ELSE <<>>)
                  \o <<Call("usb_relay_exit", <<>>, 0)>>]

\* the key of MODULE that stands for all channels, '0', as c - '0'
RELAY_IDX_ALL == 0

\* the key of channel 1, '1', as c - '0'
RELAY_IDX_MIN == 1

\* the keys of a std::map<relay_idx_t, LOGIC> in the order of its iteration;
\* a key c is held as the number c - '0'
RECURSIVE ChannelKeys(_)
ChannelKeys(S) ==
    IF S = {} THEN <<>>
    ELSE <<Min(S)>> \o ChannelKeys(S \ {Min(S)})

\* char szRelaySN[6]: the first 5 characters of the serial number in upper
\* case (a shorter serial number ends at its terminator)
RelaySN(sernum) == ToUpperStr(Take(sernum, 5))

\* a loop that switches a don't-care channel off
RECURSIVE SetChannelCalls_ClearDontCare(_, _, _)
SetChannelCalls_ClearDontCare(sn, module, keys) ==
    IF keys = <<>> THEN <<>>
    ELSE (IF keys[1] = RELAY_IDX_ALL
          THEN (IF module[keys[1]] = "H"
                THEN <<Call("usb_relay_device_open_all_relay_channel", sn, 0)>>
                ELSE IF module[keys[1]] = "L"
                THEN <<Call("usb_relay_device_close_all_relay_channel", sn, 0)>>
                ELSE <<>>)
          ELSE IF module[keys[1]] = "H"
          THEN <<Call("usb_relay_device_open_one_relay_channel", sn,
                      keys[1] - RELAY_IDX_MIN + 1)>>
          ELSE <<Call("usb_relay_device_close_one_relay_channel", sn,
                      keys[1] - RELAY_IDX_MIN + 1)>>)
         \o SetChannelCalls_ClearDontCare(sn, module, Tail(keys))

\* Relays_Set, the loop over the channels of one module, keys in the order
\* of the map: the key RELAY_IDX_ALL switches all channels, every other key
\* the channel ch - RELAY_IDX_MIN + 1, whatever its value; LOGIC::X makes no
\* call
RECURSIVE SetChannelCalls(_, _, _)
SetChannelCalls(sn, module, keys) ==
    IF keys = <<>> THEN <<>>
    ELSE (IF keys[1] = RELAY_IDX_ALL
          THEN (IF module[keys[1]] = "H"
                THEN <<Call("usb_relay_device_open_all_relay_channel", sn, 0)>>
                ELSE IF module[keys[1]] = "L"
                THEN <<Call("usb_relay_device_close_all_relay_channel", sn, 0)>>
                ELSE <<>>)
          ELSE IF module[keys[1]] = "H"
          THEN <<Call("usb_relay_device_open_one_relay_channel", sn,
                      keys[1] - RELAY_IDX_MIN + 1)>>
          ELSE IF module[keys[1]] = "L"
          THEN <<Call("usb_relay_device_close_one_relay_channel", sn,
                      keys[1] - RELAY_IDX_MIN + 1)>>
          ELSE <<>>)
         \o SetChannelCalls(sn, module, Tail(keys))

\* a loop over the modules that leaves the handles open
RECURSIVE SetModuleCalls_NoClose(_, _, _, _)
SetModuleCalls_NoClose(keys, modules, channels, env) ==
    IF keys = <<>> THEN <<>>
    ELSE <<Call("usb_relay_device_open_with_serial_number", RelaySN(keys[1]), 0)>>
         \o (IF env.openOK
             THEN SetChannelCalls(RelaySN(keys[1]), modules[keys[1]],
                                  ChannelKeys(DOMAIN modules[keys[1]]))
             ELSE <<>>)
         \o SetModuleCalls_NoClose(Tail(keys), modules, channels, env)

\* Relays_Set, the loop over the modules.  The module with the empty key is
\* the first module of the enumeration.
RECURSIVE SetModuleCalls(_, _, _, _)
SetModuleCalls(keys, modules, channels, env) ==
    IF keys = <<>> THEN <<>>
    ELSE LET Opened(sernum, szRelaySN) ==
                 <<Call("usb_relay_device_open_with_serial_number", szRelaySN, 0)>>
                 \o (IF env.openOK
                     THEN SetChannelCalls(szRelaySN, modules[sernum],
                                          ChannelKeys(DOMAIN modules[sernum]))
                          \o <<Call("usb_relay_device_close", szRelaySN, 0)>>
                     ELSE <<>>)
         IN  Opened(keys[1], IF keys[1] = <<>> THEN RelaySN(channels[1].sn)
                             ELSE RelaySN(keys[1]))
             \o SetModuleCalls(Tail(keys), modules, channels, env)

\* Relays_Set(modules, channels)
Relays_Set(modules, channels, env) ==
    IF env.initOK
    THEN [error |-> ERROR_NONE,
          calls |-> <<Call("usb_relay_init", <<>>, 0)>>
                    \o SetModuleCalls(SortedKeys(DOMAIN modules), modules, channels, env)
                    \o <<Call("usb_relay_exit", <<>>, 0)>>,
          out   |-> <<>>]
    ELSE [error |-> ERROR_NO_DRIVER_INIT,
          calls |-> <<Call("usb_relay_init", <<>>, 0)>>,
          out   |-> <<>>]

\* 2^n
RECURSIVE Pow2(_)
Pow2(n) == IF n = 0 THEN 1 ELSE 2 * Pow2(n - 1)

\* (status & (0x0001) << (ch - 1)) ? true : false
StatusBit(status, ch) == (status \div Pow2(ch - 1)) % 2 = 1

\* Relays_Query, the loop over the characters of q from the i-th on: one
\* bit for each character '1'..'8' that is a channel of the module
QueryBits(q, i, status, num_channels) ==
    LET IsChannel(c) == /\ c \in ChannelChars
                        /\ DigitValue(c) >= 1
                        /\ DigitValue(c) <= num_channels
        Bits(chs) == [k \in 1..Len(chs) |->
                         IF StatusBit(status, DigitValue(chs[k])) THEN "1" ELSE "0"]
    IN  Bits(SelectSeq(SubSeq(q, i, Len(q)), IsChannel))

\* Relays_Query, one pass of the loop over the queries.  The result of
\* usb_relay_device_get_status is not looked at: when the call fails and
\* stores nothing, the bits printed are those of the uninitialised variable
\* status, env.uninit.  For an empty q the channel list is the characters
\* char('0' + i) for i = 1..num_channels: the sum is cut to eight bits, so
\* the digits come round again at i = 256..265; ":" stands for every
\* character that is not a digit.
QueryOne(Q, channels, env) ==
    LET Printed(szRelaySN, num_channels, q, status) ==
            [error |-> IF Q.sn # <<>> /\ num_channels < 1 THEN ERROR_BAD_SERNUM
                       ELSE ERROR_NONE,
             calls |-> IF num_channels > 0
                       THEN <<Call("usb_relay_device_open_with_serial_number",
                                   szRelaySN, 0)>>
                            \o (IF env.openOK
                                THEN <<Call("usb_relay_device_get_status", szRelaySN, 0),
                                       Call("usb_relay_device_close", szRelaySN, 0)>>
                                ELSE <<>>)
                       ELSE <<>>,
             out   |-> IF num_channels > 0
                       THEN (IF env.openOK
                             THEN QueryBits(q, 1, status, num_channels)
                             ELSE <<>>)
                            \o <<" ">>
                       ELSE <<>>]
        Counted(szRelaySN, num_channels) ==
            Printed(szRelaySN, num_channels,
                    IF Q.q = <<>>
                    THEN [i \in 1..num_channels |->
                             IF ((48 + i) % 256) \in 48..57
                             THEN DigitSeq[((48 + i) % 256) - 47] ELSE ":"]
                    ELSE Q.q,
                    IF num_channels > 0 /\ env.openOK /\ env.statusOK
                    THEN env.status[szRelaySN]
                    ELSE env.uninit)
    IN  Counted(RelaySN(Q.sn),
                IF Q.sn = <<>> THEN 0
                ELSE Relays_Get_NumChannels(RelaySN(Q.sn), channels))

\* Relays_Query, the loop over the queries: a later error replaces an earlier
RECURSIVE QueryAll(_, _, _, _)
QueryAll(queries, acc, channels, env) ==
    LET Pass(one) ==
            QueryAll(Tail(queries),
                     [error |-> IF one.error # ERROR_NONE THEN one.error ELSE acc.error,
                      calls |-> acc.calls \o one.calls,
                      out   |-> acc.out \o one.out],
                     channels, env)
    IN  IF queries = <<>> THEN acc ELSE Pass(QueryOne(queries[1], channels, env))

\* Relays_Query(queries, channels)
Relays_Query(queries, channels, env) ==
    LET Exit(all) ==
            [all EXCEPT !.calls = all.calls \o <<Call("usb_relay_exit", <<>>, 0)>>]
    IN  IF env.initOK
        THEN Exit(QueryAll(queries,
                           [error |-> ERROR_NONE,
                            calls |-> <<Call("usb_relay_init", <<>>, 0)>>,
                            out   |-> <<>>],
                           channels, env))
        ELSE [error |-> ERROR_NO_DRIVER_INIT,
              calls |-> <<Call("usb_relay_init", <<>>, 0)>>,
              out   |-> <<>>]

\* the digit printed for a device type by Relays_Enumerate
TypeText(type) == IF type \in {1, 2, 4, 8} THEN DigitSeq[type + 1] ELSE "?"

\* Relays_Enumerate, the loop over the devices
RECURSIVE EnumerateText(_)
EnumerateText(devices) ==
    IF devices = <<>> THEN <<>>
    ELSE devices[1].sn \o <<"(", TypeText(devices[1].channels), ")">>
         \o (IF Len(devices) > 1 THEN <<",">> ELSE <<>>)
         \o EnumerateText(Tail(devices))

\* Relays_Enumerate()
Relays_Enumerate(env) ==
    IF env.initOK
    THEN [error |-> IF env.devices # <<>> THEN ERROR_NONE ELSE ERROR_NO_DEVICES,
          calls |-> <<Call("usb_relay_init", <<>>, 0),
                      Call("usb_relay_device_enumerate", <<>>, 0)>>
                    \o (IF env.devices # <<>>
                        THEN <<Call("usb_relay_device_free_enumerate", <<>>, 0)>>
                        ELSE <<>>)
                    \o <<Call("usb_relay_exit", <<>>, 0)>>,
          out   |-> EnumerateText(env.devices)]
    ELSE [error |-> ERROR_NO_DRIVER_INIT,
          calls |-> <<Call("usb_relay_init", <<>>, 0)>>,
          out   |-> <<>>]

\* what ListAlias() prints: ALIAS=SERNUM lines with endl between them, or
\* "No aliases defined" and endl
ListText(lines) ==
    IF lines = <<>> THEN <<"No aliases defined", "\n">>
    ELSE LET RECURSIVE Text(_)
             Text(i) == IF i > Len(lines) THEN <<>>
                        ELSE (IF i > 1 THEN <<"\n">> ELSE <<>>)
                             \o lines[i][1] \o <<"=">> \o lines[i][2] \o Text(i + 1)
         IN  Text(1)

(***************************************************************************)
(* main()                                                                  *)
(***************************************************************************)
\* a dispatch that goes by what was parsed, whatever the error
MainDispatch_IgnoreError(p, channels, env) ==
    IF p.is_help THEN [error |-> p.error, calls |-> <<>>, out |-> <<"usage">>]
    ELSE IF p.is_enumerate THEN Relays_Enumerate(env)
    ELSE IF DOMAIN p.module # {} THEN Relays_Set(p.module, channels, env)
    ELSE IF Len(p.queries) > 0 THEN Relays_Query(p.queries, channels, env)
    ELSE [error |-> p.error, calls |-> <<>>, out |-> <<>>]

\* if (error == ERROR_CODES::NONE) { ... } of main()
MainDispatch(p, channels, env) ==
    IF p.error # ERROR_NONE THEN [error |-> p.error, calls |-> <<>>, out |-> <<>>]
    ELSE IF p.is_help THEN [error |-> p.error, calls |-> <<>>, out |-> <<"usage">>]
    ELSE IF p.is_enumerate THEN Relays_Enumerate(env)
    ELSE IF p.is_set THEN Relays_Set(p.module, channels, env)
    ELSE IF p.is_query THEN Relays_Query(p.queries, channels, env)
    ELSE [error |-> p.error, calls |-> <<>>, out |-> <<>>]

\* the state of the argument loops before the first argument
ParseStart(reg) ==
    [error |-> ERROR_NONE, error_sernum |-> <<>>, cur_sn |-> <<>>,
     is_help |-> FALSE, is_enumerate |-> FALSE, is_set |-> FALSE, is_query |-> FALSE,
     module |-> <<>>, queries |-> <<>>, reg |-> reg, out |-> <<>>]

\* main(), the part that parses the command line.  Listed: ALIAS ends with
\* ListAlias() unless an argument was in error.
MainParse(args, gs, reg, ok) ==
    LET Printed(a, l) == [a EXCEPT !.reg = l.reg, !.out = ListText(l.lines)]
        Listed(a) == IF a.error = ERROR_NONE THEN Printed(a, ListAlias(a.reg, ok)) ELSE a
        IsSet(a) == [a EXCEPT !.is_set = (a.error = ERROR_NONE)]
        IsQuery(a) == [a EXCEPT !.is_query = (a.error = ERROR_NONE)]
        Command(p0) ==
            IF Len(args) = 0 THEN [p0 EXCEPT !.is_help = TRUE]
            ELSE IF regex_help(args[1])
            THEN IF Len(args) = 1 THEN [p0 EXCEPT !.is_help = TRUE]
                 ELSE [p0 EXCEPT !.error = ERROR_SYNTAX]
            ELSE IF regex_enumerate(args[1])
            THEN IF Len(args) = 1 THEN [p0 EXCEPT !.is_enumerate = TRUE]
                 ELSE [p0 EXCEPT !.error = ERROR_SYNTAX]
            ELSE IF ~gs.bResult THEN [p0 EXCEPT !.error = ERROR_NO_DEVICES]
            ELSE IF regex_alias(args[1]) /\ Len(args) >= 1
            THEN Listed(IF Len(args) = 1 THEN p0 ELSE AliasLoop(args, Len(args), p0, ok))
            ELSE IF regex_set(args[1]) /\ Len(args) > 1
            THEN IsSet(SetLoop(args, 2, p0, gs.channels, ok))
            ELSE IF regex_query(args[1])
            THEN IsQuery(QueryLoop(args, 2, p0, gs.channels, ok))
            ELSE [p0 EXCEPT !.error = ERROR_SYNTAX]
    IN  Command(ParseStart(reg))

\* main() from its first line to return int(error), for the arguments
\* args = argv[1..] in the environment env: the exit code, the calls to the
\* relay library, the text on std::cout and the registry afterwards.
\* Relays_Get_Sernums is only called for a command that is neither help nor
\* enumerate.
MainResult(args, env, reg, ok) ==
    LET Returned(gs, p, d) ==
            [error  |-> d.error,
             calls  |-> gs.calls \o d.calls,
             stdout |-> p.out \o d.out,
             reg    |-> p.reg,
             module |-> p.module,
             queries |-> p.queries]
        Parsed(gs, p) == Returned(gs, p, MainDispatch(p, gs.channels, env))
        Started(gs) == Parsed(gs, MainParse(args, gs, reg, ok))
    IN  Started(IF Len(args) > 0 /\ ~regex_help(args[1]) /\ ~regex_enumerate(args[1])
                THEN Relays_Get_Sernums(env)
                ELSE [bResult |-> FALSE, channels |-> <<>>, calls |-> <<>>])

(***************************************************************************)
(* Runs of the program from the command line                               *)
(***************************************************************************)
MaxArgs == 3

\* the modules of the README: 6QMBS with 8 channels, 5XARZ with 2
TwoDevices == <<[sn |-> SN_6QMBS, channels |-> 8], [sn |-> SN_5XARZ, channels |-> 2]>>

\* only the module 6QMBS is attached
OneDevice == <<[sn |-> SN_6QMBS, channels |-> 8]>>

\* the module 6QMBS enumerated with a type below zero: int(pdevice->type) is
\* whatever the relay library stores, and nothing in the program checks it
BadTypeDevice == <<[sn |-> SN_6QMBS, channels |-> -1]>>

\* get-status answers: 0b001011 for 6QMBS, 0b01 for 5XARZ
DeviceStatus == [sn \in {SN_6QMBS, SN_5XARZ} |-> IF sn = SN_6QMBS THEN 11 ELSE 1]

\* other get-status answers: 0b10110100 for 6QMBS, 0b10 for 5XARZ
DeviceStatus_2 == [sn \in {SN_6QMBS, SN_5XARZ} |-> IF sn = SN_6QMBS THEN 180 ELSE 2]

\* values that the variable status of Relays_Query may hold when
\* usb_relay_device_get_status has stored nothing.  The variable is read
\* uninitialised, so every value is possible; only its low eight bits are
\* ever printed (channels are '1'..'8'), and all of them are allowed.
UninitValues == 0..255

\* what the relay library answers during one run.  statusOK: get-status
\* stores the status; otherwise it fails and stores nothing, and uninit is
\* what the variable holds.  get-status is only called on an opened
\* device with at least one channel, so its failure is drawn only where
\* such a device can be opened.
Environments ==
    [devices : {<<>>, OneDevice, TwoDevices, BadTypeDevice}, initOK : BOOLEAN,
     openOK : BOOLEAN, statusOK : {TRUE},
     status : {DeviceStatus, DeviceStatus_2}, uninit : {0}]
    \cup
    [devices : {OneDevice, TwoDevices}, initOK : {TRUE},
     openOK : {TRUE}, statusOK : {FALSE},
     status : {DeviceStatus}, uninit : UninitValues]

W_SET == <<"s", "e", "t">>

W_QUERY == <<"Q", "u", "e", "r", "y">>

W_ALIAS == <<"a", "l", "i", "a", "s">>

W_LIST == <<"l", "i", "s", "t">>

W_HELP == <<"-", "h">>

W_BOGUS == <<"r", "u", "n">>

\* SET: 6QMBS  #1  #2:01X  6QMBS:1hL_.x0  5XARZ:0H  5XARZ:011  1=ON  3=0  9=1
SetTokens ==
    {SN_6QMBS, Alias_1,
     <<"#", "2", ":", "0", "1", "X">>,
     <<"6", "Q", "M", "B", "S", ":", "1", "h", "L", "_", ".", "x", "0">>,
     <<"5", "X", "A", "R", "Z", ":", "0", "H">>,
     <<"5", "X", "A", "R", "Z", ":", "0", "1", "1">>,
     <<"1", "=", "O", "N">>, <<"3", "=", "0">>, <<"9", "=", "1">>}

\* QUERY: 6QMBS  #1  #2@121  6QMBS@1456  5XARZ@3  5XARZ@178  1=ON
QueryTokens ==
    {SN_6QMBS, Alias_1,
     <<"#", "2", "@", "1", "2", "1">>,
     <<"6", "Q", "M", "B", "S", "@", "1", "4", "5", "6">>,
     <<"5", "X", "A", "R", "Z", "@", "3">>,
     <<"5", "X", "A", "R", "Z", "@", "1", "7", "8">>,
     <<"1", "=", "O", "N">>}

\* ALIAS: #1=6QMBS  +#1:5xarz  #2=5XARZ  -#1  #1
AliasTokens ==
    {<<"#", "1", "=", "6", "Q", "M", "B", "S">>,
     <<"+", "#", "1", ":", "5", "x", "a", "r", "z">>,
     <<"#", "2", "=", "5", "X", "A", "R", "Z">>,
     <<"-", "#", "1">>,
     Alias_1}

\* the sequences of at most n elements of S
RECURSIVE SeqsUpTo(_, _)
SeqsUpTo(S, n) ==
    IF n = 0 THEN {<<>>}
    ELSE LET shorter == SeqsUpTo(S, n - 1)
         IN  shorter \cup {Append(q, x) : q \in {r \in shorter : Len(r) = n - 1}, x \in S}

\* the command lines: a command word and at most MaxArgs arguments
CommandLines ==
    {<<>>, <<W_HELP>>, <<W_LIST>>, <<W_LIST, SN_6QMBS>>, <<W_BOGUS>>}
        \cup {<<W_SET>> \o a : a \in SeqsUpTo(SetTokens, MaxArgs)}
        \cup {<<W_QUERY>> \o a : a \in SeqsUpTo(QueryTokens, MaxArgs)}
        \cup {<<W_ALIAS>> \o a : a \in SeqsUpTo(AliasTokens, MaxArgs)}

\* one run of the program, from main() to its return, for some command
\* line of lines and some behaviour of the relay library of envs.  The
\* calls of a run do not depend on what the variable status holds, so the
\* run is first taken with the value 0, and where it has called
\* usb_relay_device_get_status and the call has stored nothing, it is
\* taken with every value the uninitialised variable may hold.
MainOf(lines, envs) ==
    /\ pc = "idle"
    /\ \E args \in lines, lib \in envs :
          /\ lib.uninit = 0
          /\ \E first \in {MainResult(args, lib, registry, regOK)} :
             \E env \in (IF /\ ~lib.statusOK
                            /\ \E i \in 1..Len(first.calls) :
                                  first.calls[i].fn = "usb_relay_device_get_status"
                         THEN {[lib EXCEPT !.uninit = u] : u \in UninitValues}
                         ELSE {lib}) :
             \E res \in {IF env = lib THEN first
                         ELSE MainResult(args, env, registry, regOK)} :
              /\ pc' = "exited"
              /\ argv' = [args |-> args, env |-> env,
                           module |-> res.module, queries |-> res.queries]
              /\ error' = res.error
              /\ calls' = res.calls
              /\ stdout' = res.stdout
              /\ before' = registry
              /\ registry' = res.reg
              /\ UNCHANGED <<regOK, prev, last, order, inst, rt>>

Main == MainOf(CommandLines, Environments)

\* the next process starts with nothing but the registry
NextProcess ==
    /\ pc = "exited"
    /\ pc' = "idle"
    /\ argv' = NoRun
    /\ error' = ERROR_NONE
    /\ calls' = <<>>
    /\ stdout' = <<>>
    /\ before' = registry
    /\ UNCHANGED <<registry, regOK, prev, last, order, inst, rt>>

NextMain ==
    \/ Main
    \/ NextProcess

SpecMain == Init /\ [][NextMain]_vars

(***************************************************************************)
(* Properties of one run of the program                                    *)
(***************************************************************************)
\* the calls that open a relay module, read its status or switch a channel
DeviceCalls ==
    {"usb_relay_device_open_with_serial_number",
     "usb_relay_device_get_status",
     "usb_relay_device_open_one_relay_channel",
     "usb_relay_device_close_one_relay_channel",
     "usb_relay_device_open_all_relay_channel",
     "usb_relay_device_close_all_relay_channel"}

\* the run that ended was a SET or a QUERY with arguments
IsSetOrQueryRun ==
    /\ pc = "exited"
    /\ Len(argv.args) >= 2
    /\ (regex_set(argv.args[1]) \/ regex_query(argv.args[1]))

\* the error the argument loop of the run ended with, for its first n words
ParseErrorOf(n) ==
    MainParse(SubSeq(argv.args, 1, n), Relays_Get_Sernums(argv.env), before, regOK).error

TokenErrors == {ERROR_SYNTAX, ERROR_BAD_SERNUM, ERROR_INVALID_CHANNEL}

\* C10: a SET or QUERY run in which a token is in error (syntax, unknown
\* device, invalid channel) makes no call that opens a module, reads its
\* status or switches a channel.
C10_FailFast ==
    (IsSetOrQueryRun /\ ParseErrorOf(Len(argv.args)) \in TokenErrors)
        => \A i \in DOMAIN calls : calls[i].fn \notin DeviceCalls

\* C10 witness: the tokens before the last one name a module and a channel of
\* it without error, the last token is in error, and the run made the calls
\* of the enumeration only
C10_Witness ==
    /\ IsSetOrQueryRun
    /\ Len(argv.args) = 4
    /\ ParseErrorOf(3) = ERROR_NONE
    /\ ParseErrorOf(4) \in TokenErrors
    /\ error = ParseErrorOf(4)
    /\ calls # <<>>
    /\ \A i \in DOMAIN calls : calls[i].fn \notin DeviceCalls

(***************************************************************************)
(* Two instances of the program on the same registry value.  One step is   *)
(* one call of the registry API; what an instance has read stays in its    *)
(* local string until it writes.                                           *)
(***************************************************************************)
\* the aliases the two instances work on
ConcAliases == {Alias_1, Alias_2}

\* the list an earlier run left behind: #1=6QMBS
OneEntryList == Alias_1 \o <<"=">> \o SN_6QMBS

OtherVarsUnchanged ==
    UNCHANGED <<regOK, before, prev, last, order, argv, error, calls, stdout, rt, pc>>

\* instance i enters AssignAlias(alias, sernum), which calls RemoveAlias first
StartAssign(i, alias, sernum) ==
    /\ inst.p[i].pc = "idle"
    /\ inst' = [inst EXCEPT !.p[i] = [pc |-> "rm_read", op |-> "Assign",
                                      alias |-> ToUpperStr(alias),
                                      sernum |-> ToUpperStr(sernum), str |-> <<>>]]
    /\ UNCHANGED registry
    /\ OtherVarsUnchanged

\* instance i enters RemoveAlias(alias)
StartRemove(i, alias) ==
    /\ inst.p[i].pc = "idle"
    /\ inst' = [inst EXCEPT !.p[i] = [pc |-> "rm_read", op |-> "Remove",
                                      alias |-> ToUpperStr(alias),
                                      sernum |-> <<>>, str |-> <<>>]]
    /\ UNCHANGED registry
    /\ OtherVarsUnchanged

\* where RemoveAlias goes when it is through: back into AssignAlias, or out
AfterRemove(me) ==
    IF me.op = "Assign" THEN [me EXCEPT !.pc = "as_read", !.str = <<>>]
    ELSE [me EXCEPT !.pc = "done", !.str = <<>>]

\* the instance after ReadRegSZ returned true with strResult.  In RemoveAlias
\* the loop runs on it and the rebuilt list waits for WriteRegSZ when the alias
\* was found; in AssignAlias the list with the new entry waits for WriteRegSZ.
AfterRead(me, strResult) ==
    LET Rebuilt(lp) == IF lp.bFound
                       THEN [me EXCEPT !.pc = "rm_write", !.str = lp.strAliasList]
                       ELSE AfterRemove(me)
    IN  IF me.pc \in {"rm_read", "rm_default"}
        THEN Rebuilt(RemoveLoop(me.alias, strResult, <<>>, FALSE))
        ELSE [me EXCEPT !.pc = "as_write",
                        !.str = PrependEntry(me.alias, me.sernum, strResult)]

\* ReadRegSZ, the call of RegGetValueW: the value is read, or the read fails
\* and the default is written next
RegGet(i) ==
    /\ inst.p[i].pc \in {"rm_read", "as_read"}
    /\ regOK.get
    /\ inst' = [inst EXCEPT !.p[i] =
                   IF RegGetValueW(registry, regOK)
                   THEN AfterRead(inst.p[i], registry.value)
                   ELSE [inst.p[i] EXCEPT !.pc = IF inst.p[i].pc = "rm_read"
                                                 THEN "rm_default" ELSE "as_default"]]
    /\ UNCHANGED registry
    /\ OtherVarsUnchanged

\* ReadRegSZ, the call of RegSetValueExW with the default "" after a read that
\* failed
RegSetDefault(i) ==
    /\ inst.p[i].pc \in {"rm_default", "as_default"}
    /\ regOK.create
    /\ registry' = [present |-> TRUE, value |-> mbstowcs_s(<<>>)]
    /\ inst' = [inst EXCEPT !.p[i] = AfterRead(inst.p[i], mbstowcs_s(<<>>)),
                            !.writer = i]
    /\ OtherVarsUnchanged

\* WriteRegSZ of the list the instance holds
RegSet(i) ==
    /\ inst.p[i].pc \in {"rm_write", "as_write"}
    /\ regOK.set
    /\ registry' = WriteRegSZ(registry, regOK, inst.p[i].str).reg
    /\ inst' = [inst EXCEPT !.p[i] = IF inst.p[i].pc = "rm_write"
                                     THEN AfterRemove(inst.p[i])
                                     ELSE [inst.p[i] EXCEPT !.pc = "done", !.str = <<>>],
                            !.writer = i]
    /\ OtherVarsUnchanged

\* no value yet, an empty list, or the list #1=6QMBS
InitConc ==
    /\ registry \in {AbsentValue,
                     [present |-> TRUE, value |-> <<>>],
                     [present |-> TRUE, value |-> OneEntryList]}
    /\ regOK = AllOK
    /\ before = registry
    /\ prev = Called(NoOp)
    /\ last = NoOp
    /\ order = <<>>
    /\ argv = NoRun
    /\ error = ERROR_NONE
    /\ calls = <<>>
    /\ stdout = <<>>
    /\ inst = NoInstances
    /\ rt = NoRoundTrip
    /\ pc = "idle"

NextConc ==
    \/ \E i \in Instances, a \in ConcAliases, s \in Sernums : StartAssign(i, a, s)
    \/ \E i \in Instances, a \in ConcAliases : StartRemove(i, a)
    \/ \E i \in Instances : RegGet(i)
    \/ \E i \in Instances : RegSetDefault(i)
    \/ \E i \in Instances : RegSet(i)

SpecConc == InitConc /\ [][NextConc]_vars

\* both instances are through with their operation
BothDone == \A i \in Instances : inst.p[i].pc = "done"

\* the persisted list shows the operation of instance i: the entry it
\* assigned, or no entry for the alias it removed
Applied(i) ==
    IF inst.p[i].op = "Assign"
    THEN \E k \in DOMAIN Pairs(registry.value) :
            Pairs(registry.value)[k] = <<inst.p[i].alias, inst.p[i].sernum>>
    ELSE inst.p[i].alias \notin AliasesOf(registry.value)

\* C9, last write wins: when both instances are through, the persisted list
\* is the one of the instance that wrote last and shows its operation.
C9_LastWriteWins ==
    (BothDone /\ inst.writer \in Instances) => Applied(inst.writer)

\* C9, the lost update: both instances are through with an assignment, each
\* of another alias, and the persisted list does not show the entry of one of
\* them
C9_LostUpdate ==
    /\ BothDone
    /\ inst.p[1].alias # inst.p[2].alias
    /\ \A i \in Instances : inst.p[i].op = "Assign"
    /\ \E i \in Instances : ~Applied(i)

(***************************************************************************)
(* Properties of the ALIAS command                                         *)
(***************************************************************************)
\* the run that ended was an ALIAS command with n or more tokens after it
IsAliasRun(n) ==
    /\ pc = "exited"
    /\ Len(argv.args) >= n + 1
    /\ regex_alias(argv.args[1])

\* the token is neither +ALIAS=SERNUM nor -ALIAS
Malformed(tok) == ~regex_alias_assign(tok).found /\ ~regex_alias_remove(tok).found

\* the alias a token assigns or removes, upper-cased
TokenAlias(tok) ==
    IF regex_alias_assign(tok).found THEN ToUpperStr(regex_alias_assign(tok).m1)
    ELSE ToUpperStr(regex_alias_remove(tok).m1)

\* the store after the operations of the tokens args[i], args[i-1], ...,
\* args[k+1] were applied to r in that order
RECURSIVE AppliedRightToLeft(_, _, _, _)
AppliedRightToLeft(args, i, k, r) ==
    IF i <= k THEN r
    ELSE AppliedRightToLeft(args, i - 1, k,
            IF regex_alias_assign(args[i]).found
            THEN AssignAlias(regex_alias_assign(args[i]).m1,
                             regex_alias_assign(args[i]).m2, r, regOK).reg
            ELSE RemoveAlias(regex_alias_remove(args[i]).m1, r, regOK).reg)

\* the tokens of the run that are malformed, by their position in argv
MalformedAt == {i \in 2..Len(argv.args) : Malformed(argv.args[i])}

\* C11 (as claimed): an ALIAS command with several tokens of which one is
\* malformed ends with SyntaxError, the store holds what the tokens right of
\* the malformed one made of it, the tokens left of it are not applied, and
\* nothing is printed.
C11_NotTransactional ==
    (IsAliasRun(2) /\ MalformedAt # {}) =>
        /\ error = ERROR_SYNTAX
        /\ registry = AppliedRightToLeft(argv.args, Len(argv.args), Max(MalformedAt), before)
        /\ stdout = <<>>

\* C11 where at least one relay module is enumerated: the run is as claimed
C11_WithModules ==
    (IsAliasRun(2) /\ MalformedAt # {} /\ argv.env.devices # <<>>) =>
        /\ error = ERROR_SYNTAX
        /\ registry = AppliedRightToLeft(argv.args, Len(argv.args), Max(MalformedAt), before)
        /\ stdout = <<>>

\* the tokens of the run that assign alias a, by their position in argv
AssignsAt(a) ==
    {i \in 2..Len(argv.args) :
        regex_alias_assign(argv.args[i]).found /\ TokenAlias(argv.args[i]) = a}

\* the text of one printed entry
EntryText(alias, sernum) == alias \o <<"=">> \o sernum

\* C12 (as claimed): an ALIAS command whose tokens are all well-formed leaves
\* the store that the tokens make of it from the right to the left and prints
\* the list of that store; an alias that is assigned by two tokens keeps the
\* serial number of the leftmost of them, and when the leftmost token is an
\* assignment its entry is printed first.
C12_RightToLeft ==
    (IsAliasRun(1) /\ MalformedAt = {}) =>
        /\ error = ERROR_NONE
        /\ registry.value =
               AppliedRightToLeft(argv.args, Len(argv.args), 1, before).value
        /\ stdout = ListText(Pairs(registry.value))
        /\ \A i \in 2..Len(argv.args) :
              LET a == TokenAlias(argv.args[i])
              IN  (Cardinality(AssignsAt(a)) >= 2 /\ i = Min(AssignsAt(a))
                       /\ \A j \in 2..(i - 1) : TokenAlias(argv.args[j]) # a)
                  => \E k \in DOMAIN Pairs(registry.value) :
                        Pairs(registry.value)[k] =
                            <<a, ToUpperStr(regex_alias_assign(argv.args[i]).m2)>>
        /\ regex_alias_assign(argv.args[2]).found =>
              SubSeq(stdout, 1, Len(TokenAlias(argv.args[2])) + 6) =
                  EntryText(TokenAlias(argv.args[2]),
                            ToUpperStr(regex_alias_assign(argv.args[2]).m2))

\* C12 where at least one relay module is enumerated: the run is as claimed
C12_WithModules ==
    (IsAliasRun(1) /\ MalformedAt = {} /\ argv.env.devices # <<>>) =>
        /\ error = ERROR_NONE
        /\ registry.value =
               AppliedRightToLeft(argv.args, Len(argv.args), 1, before).value
        /\ stdout = ListText(Pairs(registry.value))
        /\ \A i \in 2..Len(argv.args) :
              LET a == TokenAlias(argv.args[i])
              IN  (Cardinality(AssignsAt(a)) >= 2 /\ i = Min(AssignsAt(a))
                       /\ \A j \in 2..(i - 1) : TokenAlias(argv.args[j]) # a)
                  => \E k \in DOMAIN Pairs(registry.value) :
                        Pairs(registry.value)[k] =
                            <<a, ToUpperStr(regex_alias_assign(argv.args[i]).m2)>>
        /\ regex_alias_assign(argv.args[2]).found =>
              SubSeq(stdout, 1, Len(TokenAlias(argv.args[2])) + 6) =
                  EntryText(TokenAlias(argv.args[2]),
                            ToUpperStr(regex_alias_assign(argv.args[2]).m2))

\* C13 (as claimed): ALIAS without arguments on a store without the value
\* prints "No aliases defined" and exits with 0, whatever is enumerated.
C13_NoAliasesDefined ==
    (pc = "exited" /\ Len(argv.args) = 1 /\ regex_alias(argv.args[1])
        /\ ~before.present)
    => (stdout = <<"No aliases defined", "\n">> /\ error = ERROR_NONE)

\* C13 where at least one relay module is enumerated: the run is as claimed
C13_WithModules ==
    (pc = "exited" /\ Len(argv.args) = 1 /\ regex_alias(argv.args[1])
        /\ ~before.present /\ argv.env.devices # <<>>)
    => (stdout = <<"No aliases defined", "\n">> /\ error = ERROR_NONE)

(***************************************************************************)
(* Properties of the SET and QUERY commands                                *)
(***************************************************************************)
IsSetRun == pc = "exited" /\ Len(argv.args) >= 2 /\ regex_set(argv.args[1])

IsQueryRun == pc = "exited" /\ Len(argv.args) >= 2 /\ regex_query(argv.args[1])

\* the last token of the command line
LastToken == argv.args[Len(argv.args)]

\* the tokens before the last one were taken without error
PrefixOK == Len(argv.args) = 2 \/ ParseErrorOf(Len(argv.args) - 1) = ERROR_NONE

\* Resolve(name) on the alias list the run found: the serial number of the
\* first entry of the alias, else the name itself when it has the form of a
\* serial number, else nothing
ResolvedSernum(name) ==
    LET L    == Loaded(before)
        t    == ToUpperStr(name)
        hits == {i \in DOMAIN L : L[i][1] = t}
    IN  IF hits # {} THEN L[Min(hits)][2]
        ELSE IF Len(t) = 5 /\ \A i \in 1..5 : t[i] \in UpperAlnum THEN t
        ELSE <<>>

\* the serial number is one of the enumeration of the run
Enumerated(sn) == \E i \in DOMAIN argv.env.devices : argv.env.devices[i].sn = sn

\* the channel count of an enumerated module
ChannelCount(sn) ==
    argv.env.devices[CHOOSE i \in DOMAIN argv.env.devices :
                         argv.env.devices[i].sn = sn].channels

\* the logic value of a pattern character: Set "H", Clear "L", DontCare "X"
LogicOf(c) ==
    IF c \in {"1", "H", "h"} THEN "H"
    ELSE IF c \in {"0", "L", "l"} THEN "L"
    ELSE "X"

\* the calls that switch relays
SwitchFns ==
    {"usb_relay_device_open_one_relay_channel",
     "usb_relay_device_close_one_relay_channel",
     "usb_relay_device_open_all_relay_channel",
     "usb_relay_device_close_all_relay_channel"}

NoSwitchCalls == \A i \in DOMAIN calls : calls[i].fn \notin SwitchFns

C14_TypeNotNegative ==
    (IsSetRun /\ PrefixOK /\ regex_sernum_pattern(LastToken).found
        /\ Enumerated(ResolvedSernum(regex_sernum_pattern(LastToken).m1))
        /\ ChannelCount(ResolvedSernum(regex_sernum_pattern(LastToken).m1)) >= 0)
    => LET sn == ResolvedSernum(regex_sernum_pattern(LastToken).m1)
           P  == regex_sernum_pattern(LastToken).m2
       IN  IF Len(P) <= ChannelCount(sn)
           THEN /\ error \in {ERROR_NONE, ERROR_NO_DRIVER_INIT}
                /\ argv.module[sn] = [i \in 1..Len(P) |-> LogicOf(P[i])]
                /\ \A i \in DOMAIN calls :
                      (calls[i].fn \in SwitchFns /\ calls[i].sn = sn)
                          => calls[i].ch <= Len(P)
           ELSE error = ERROR_INVALID_CHANNEL /\ NoSwitchCalls

\* set 6QMBS:1hL_.x0 on the module enumerated with type -1: the pattern of
\* seven characters is longer than the channel count, the run ends with exit
\* code 0 and channel 2 has been switched
C14_NegativeTypeAccepted ==
    /\ IsSetRun
    /\ Len(argv.args) = 2
    /\ argv.env.devices = BadTypeDevice
    /\ Len(regex_sernum_pattern(LastToken).m2) = 7
    /\ error = ERROR_NONE
    /\ \E i \in DOMAIN calls :
          calls[i] = Call("usb_relay_device_open_one_relay_channel", SN_6QMBS, 2)

\* C14 witness: set 6QMBS:1hL_.x0 on the module with 8 channels went through:
\* channels 1, 2 Set, 3, 7 Clear, 4, 5, 6 DontCare, 8 not mentioned
C14_Witness ==
    /\ IsSetRun
    /\ Len(argv.args) = 2
    /\ regex_sernum_pattern(LastToken).found
    /\ Len(regex_sernum_pattern(LastToken).m2) = 7
    /\ argv.env.devices \in {OneDevice, TwoDevices}
    /\ error = ERROR_NONE
    /\ argv.module[SN_6QMBS] = <<"H", "H", "L", "X", "X", "X", "L">>
    /\ \E i \in DOMAIN calls :
          calls[i] = Call("usb_relay_device_open_one_relay_channel", SN_6QMBS, 2)
    /\ \E i \in DOMAIN calls :
          calls[i] = Call("usb_relay_device_close_one_relay_channel", SN_6QMBS, 7)

\* the channels of module sn for which fn was called
ChannelsCalled(fn, sn) ==
    {calls[i].ch : i \in {j \in DOMAIN calls : calls[j].fn = fn /\ calls[j].sn = sn}}

\* Relays_Set got a handle for module sn
HandleOpened(sn) ==
    /\ argv.env.openOK
    /\ \E i \in DOMAIN calls :
          calls[i] = Call("usb_relay_device_open_with_serial_number", sn, 0)

\* C15: in a SET run no call is made for a channel that is DontCare or not
\* mentioned: for every module that Relays_Set opened, the set-channel call is
\* made once for exactly the channels mapped to Set and the clear-channel call
\* once for exactly the channels mapped to Clear; there is no other switching
\* call.
C15_DontCareNoCall ==
    IsSetRun =>
        /\ \A sn \in DOMAIN argv.module :
              /\ ChannelsCalled("usb_relay_device_open_one_relay_channel", sn) =
                    IF HandleOpened(sn)
                    THEN {ch \in DOMAIN argv.module[sn] : argv.module[sn][ch] = "H"}
                    ELSE {}
              /\ ChannelsCalled("usb_relay_device_close_one_relay_channel", sn) =
                    IF HandleOpened(sn)
                    THEN {ch \in DOMAIN argv.module[sn] : argv.module[sn][ch] = "L"}
                    ELSE {}
        /\ \A i \in DOMAIN calls :
              calls[i].fn \in SwitchFns =>
                  /\ calls[i].sn \in DOMAIN argv.module
                  /\ calls[i].fn \in {"usb_relay_device_open_one_relay_channel",
                                      "usb_relay_device_close_one_relay_channel"}
                  /\ \A j \in DOMAIN calls : calls[j] = calls[i] => j = i

\* C15 witness: a SET run that opened 6QMBS with channel 1 Set, channel 3
\* Clear and channel 4 DontCare: calls for 1 and 3, none for 4
C15_Witness ==
    /\ IsSetRun
    /\ error = ERROR_NONE
    /\ HandleOpened(SN_6QMBS)
    /\ SN_6QMBS \in DOMAIN argv.module
    /\ {1, 3, 4} \subseteq DOMAIN argv.module[SN_6QMBS]
    /\ argv.module[SN_6QMBS][1] = "H"
    /\ argv.module[SN_6QMBS][3] = "L"
    /\ argv.module[SN_6QMBS][4] = "X"
    /\ 1 \in ChannelsCalled("usb_relay_device_open_one_relay_channel", SN_6QMBS)
    /\ 3 \in ChannelsCalled("usb_relay_device_close_one_relay_channel", SN_6QMBS)
    /\ \A i \in DOMAIN calls : calls[i].ch # 4

\* C16 (as claimed): QUERY whose last token is TOKEN@CHANNELS for an
\* enumerated module with N channels and with a channel above N in the list
\* ends with InvalidChannel and prints nothing.
C16_ChannelIndexChecked ==
    (IsQueryRun /\ PrefixOK /\ regex_query_chlist(LastToken).found
        /\ Enumerated(ResolvedSernum(regex_query_chlist(LastToken).m1))
        /\ \E i \in DOMAIN regex_query_chlist(LastToken).m2 :
              DigitValue(regex_query_chlist(LastToken).m2[i]) >
                  ChannelCount(ResolvedSernum(regex_query_chlist(LastToken).m1)))
    => (error = ERROR_INVALID_CHANNEL /\ stdout = <<>>)

\* the module tokens (alias or serial number, with or without pattern) of a
\* SET command before position n
ModuleTokensBefore(n) ==
    {j \in 2..(n - 1) : \/ regex_alias_name(argv.args[j])
                        \/ regex_sernum_pattern(argv.args[j]).found}

\* the alias or serial number a module token of SET names
ModuleNameOf(tok) ==
    IF regex_alias_name(tok) THEN tok ELSE regex_sernum_pattern(tok).m1

\* the module a CH=STATE token at position n is for
CurrentModule(n) ==
    ResolvedSernum(ModuleNameOf(argv.args[Max(ModuleTokensBefore(n))]))

\* C17 (as claimed): SET whose last token is CH=STATE.  Without a module
\* token before it the run ends with SyntaxError; with CH above the channel
\* count of the current module it ends with InvalidChannel; nothing is
\* switched in either case.
C17_ChannelErrors ==
    (IsSetRun /\ PrefixOK /\ regex_ch_set(LastToken).found) =>
        IF ModuleTokensBefore(Len(argv.args)) = {}
        THEN error = ERROR_SYNTAX /\ NoSwitchCalls
        ELSE DigitValue(LastToken[1]) > ChannelCount(CurrentModule(Len(argv.args)))
                 => (error = ERROR_INVALID_CHANNEL /\ NoSwitchCalls)

\* C17 (amended): as claimed when a module is enumerated; a SET run with an
\* empty enumeration ends with NoDevicesFound whatever its tokens are.
C17_ChannelErrorsAmended ==
    IsSetRun =>
        IF argv.env.devices = <<>>
        THEN error = ERROR_NO_DEVICES /\ NoSwitchCalls
        ELSE (PrefixOK /\ regex_ch_set(LastToken).found) =>
                IF ModuleTokensBefore(Len(argv.args)) = {}
                THEN error = ERROR_SYNTAX /\ NoSwitchCalls
                ELSE DigitValue(LastToken[1]) >
                         ChannelCount(CurrentModule(Len(argv.args)))
                     => (error = ERROR_INVALID_CHANNEL /\ NoSwitchCalls)

\* C17 witness: set 5XARZ:0H 3=0 with 5XARZ of 2 channels enumerated ended
\* with InvalidChannel after the enumeration calls
C17_Witness ==
    /\ IsSetRun
    /\ Len(argv.args) = 3
    /\ regex_sernum_pattern(argv.args[2]).found
    /\ CurrentModule(3) = SN_5XARZ
    /\ Enumerated(SN_5XARZ)
    /\ regex_ch_set(LastToken).found
    /\ DigitValue(LastToken[1]) = 3
    /\ error = ERROR_INVALID_CHANNEL
    /\ calls # <<>>
    /\ NoSwitchCalls

\* the bit printed for channel ch of a status bitmask
BitOf(status, ch) == IF (status \div Pow2(ch - 1)) % 2 = 1 THEN "1" ELSE "0"

\* the alias or serial number a module token of QUERY names
QueryNameOf(tok) ==
    IF regex_query_chlist(tok).found THEN regex_query_chlist(tok).m1 ELSE tok

\* the channels a module token of QUERY lists: those after '@', or 1..N
ListedChannels(tok) ==
    IF regex_query_chlist(tok).found
    THEN [i \in DOMAIN regex_query_chlist(tok).m2 |->
             DigitValue(regex_query_chlist(tok).m2[i])]
    ELSE [i \in 1..ChannelCount(ResolvedSernum(QueryNameOf(tok))) |-> i]

\* what QUERY is to print for the tokens from position i on: for each
\* module one bit per listed channel in the order of the list, then a space
RECURSIVE ExpectedOutput(_)
ExpectedOutput(i) ==
    IF i > Len(argv.args) THEN <<>>
    ELSE [k \in DOMAIN ListedChannels(argv.args[i]) |->
             BitOf(argv.env.status[ResolvedSernum(QueryNameOf(argv.args[i]))],
                   ListedChannels(argv.args[i])[k])]
         \o <<" ">> \o ExpectedOutput(i + 1)

\* the run is a QUERY that read the status of every module it names
QueryWentThrough ==
    /\ IsQueryRun
    /\ ParseErrorOf(Len(argv.args)) = ERROR_NONE
    /\ error = ERROR_NONE
    /\ argv.env.openOK

\* C18 (as claimed): a QUERY that went through prints for every module token,
\* in the order of the command line, one bit per listed channel in the order
\* of the list (channels 1..N for a token without list).
C18_QueryOutput == QueryWentThrough => stdout = ExpectedOutput(2)

\* C18 for lists without a channel above the channel count of the module,
\* in runs in which get-status stored the status
C18_ValidChannels ==
    (QueryWentThrough
        /\ argv.env.statusOK
        /\ \A i \in 2..Len(argv.args) : \A k \in DOMAIN ListedChannels(argv.args[i]) :
              ListedChannels(argv.args[i])[k] <=
                  ChannelCount(ResolvedSernum(QueryNameOf(argv.args[i]))))
    => stdout = ExpectedOutput(2)

\* QUERY 6QMBS went through while get-status failed: the run ended with
\* exit code 0 and printed the bits of the uninitialised variable, which are
\* not those of the module
C18_UninitialisedPrinted ==
    /\ QueryWentThrough
    /\ ~argv.env.statusOK
    /\ argv.args = <<W_QUERY, SN_6QMBS>>
    /\ error = ERROR_NONE
    /\ stdout = <<"0", "1", "1", "1", "0", "0", "0", "0", " ">>
    /\ stdout # ExpectedOutput(2)

\* the last token of a SET or QUERY names a module
LastIsModuleToken ==
    \/ regex_alias_name(LastToken)
    \/ regex_set(argv.args[1]) /\ regex_sernum_pattern(LastToken).found
    \/ regex_query(argv.args[1]) /\ regex_query_chlist(LastToken).found

\* the alias or serial number the last token names
LastModuleName ==
    IF regex_query(argv.args[1]) THEN QueryNameOf(LastToken)
    ELSE ModuleNameOf(LastToken)

\* C19 (as claimed): SET or QUERY whose last token names a module that does
\* not resolve to an enumerated serial number ends with BadSerialNumber, also
\* when its pattern or channel list is too long for any module.
C19_UnknownDevice ==
    (IsSetOrQueryRun /\ PrefixOK /\ LastIsModuleToken
        /\ ~Enumerated(ResolvedSernum(LastModuleName)))
    => error = ERROR_BAD_SERNUM

\* C19 (amended): as claimed when a module is enumerated; a SET or QUERY run
\* with an empty enumeration ends with NoDevicesFound whatever its tokens are.
C19_UnknownDeviceAmended ==
    IsSetOrQueryRun =>
        IF argv.env.devices = <<>>
        THEN error = ERROR_NO_DEVICES
        ELSE (PrefixOK /\ LastIsModuleToken
                 /\ ~Enumerated(ResolvedSernum(LastModuleName)))
             => error = ERROR_BAD_SERNUM

\* C19 witness: 6QMBS is attached, 5XARZ is not, and set 5XARZ:011, whose
\* pattern is longer than the 0 channels found for 5XARZ, ended with
\* BadSerialNumber
C19_Witness ==
    /\ IsSetRun
    /\ argv.env.devices # <<>>
    /\ regex_sernum_pattern(LastToken).found
    /\ ResolvedSernum(LastModuleName) = SN_5XARZ
    /\ Len(regex_sernum_pattern(LastToken).m2) = 3
    /\ ~Enumerated(SN_5XARZ)
    /\ error = ERROR_BAD_SERNUM

\* how often fn is among the first n calls of the run
CountFn(fn, n) == Cardinality({i \in 1..n : calls[i].fn = fn})

\* the handles that are open after the first n calls
OpenHandles(n) ==
    IF argv.env.openOK
    THEN CountFn("usb_relay_device_open_with_serial_number", n)
             - CountFn("usb_relay_device_close", n)
    ELSE 0

\* after the first n calls the driver is initialized and not yet left
InBracket(n) ==
    /\ argv.env.initOK
    /\ CountFn("usb_relay_init", n) > CountFn("usb_relay_exit", n)

\* C20: at every point of a SET or QUERY run at most one handle is open; a
\* module is opened only with no handle open and the driver initialized, the
\* driver is left only with no handle open, and a module is read, switched or
\* closed only while its handle is open.
C20_SequentialHandles ==
    (pc = "exited" /\ Len(argv.args) >= 1
        /\ (regex_set(argv.args[1]) \/ regex_query(argv.args[1])))
    => /\ \A n \in 0..Len(calls) : OpenHandles(n) \in {0, 1}
       /\ OpenHandles(Len(calls)) = 0
       /\ \A n \in DOMAIN calls :
             /\ calls[n].fn = "usb_relay_device_open_with_serial_number"
                   => (OpenHandles(n - 1) = 0 /\ InBracket(n - 1))
             /\ calls[n].fn = "usb_relay_exit" => OpenHandles(n - 1) = 0
             /\ calls[n].fn \in SwitchFns \cup {"usb_relay_device_get_status",
                                               "usb_relay_device_close"}
                   => (OpenHandles(n - 1) = 1 /\ InBracket(n - 1))

\* C20 witness: a run that opened three modules one after the other and
\* closed each of them
C20_Witness ==
    /\ pc = "exited"
    /\ error = ERROR_NONE
    /\ argv.env.openOK
    /\ CountFn("usb_relay_device_open_with_serial_number", Len(calls)) = 3
    /\ CountFn("usb_relay_device_close", Len(calls)) = 3

(***************************************************************************)
(* The two forms of SET                                                    *)
(***************************************************************************)
\* the calls of a run that switch relays, in their order
SwitchCallsOf(cs) == SelectSeq(cs, LAMBDA c : c.fn \in SwitchFns)

\* the CH=STATE tokens for the channels of a pattern that are not DontCare,
\* from channel i on: CH=1 for Set, CH=0 for Clear
RECURSIVE ChannelTokens(_, _)
ChannelTokens(P, i) ==
    IF i > Len(P) THEN <<>>
    ELSE IF LogicOf(P[i]) = "X" THEN ChannelTokens(P, i + 1)
    ELSE <<(<<DigitSeq[i + 1], "=">> \o (IF LogicOf(P[i]) = "H" THEN <<"1">> ELSE <<"0">>))>>
             \o ChannelTokens(P, i + 1)

\* a SET run with the single token TOKEN:PATTERN
IsPatternRun ==
    /\ IsSetRun
    /\ Len(argv.args) = 2
    /\ regex_sernum_pattern(argv.args[2]).found

\* the command SET TOKEN CH=STATE ... for the pattern of the run
ChannelForm ==
    <<argv.args[1], regex_sernum_pattern(argv.args[2]).m1>>
        \o ChannelTokens(regex_sernum_pattern(argv.args[2]).m2, 1)

\* C21: set TOKEN:PATTERN for an enumerated module with at least as many
\* channels as the pattern is long makes the same switching calls, in the
\* same order, as set TOKEN CH=STATE ... listing the channels of the pattern
\* that are not DontCare with the same states, started from the same alias
\* list against the same modules; both end with the same exit code.
C21_SetFormsEquivalent ==
    (IsPatternRun
        /\ Enumerated(ResolvedSernum(regex_sernum_pattern(argv.args[2]).m1))
        /\ Len(regex_sernum_pattern(argv.args[2]).m2)
              <= ChannelCount(ResolvedSernum(regex_sernum_pattern(argv.args[2]).m1)))
    => \E other \in {MainResult(ChannelForm, argv.env, before, regOK)} :
          /\ SwitchCallsOf(calls) = SwitchCallsOf(other.calls)
          /\ error = other.error

\* C21 witness: set 6QMBS:1hL_.x0 went through with the four switching calls
\* of set 6QMBS 1=1 2=1 3=0 7=0
C21_Witness ==
    /\ IsPatternRun
    /\ regex_sernum_pattern(argv.args[2]).m1 = SN_6QMBS
    /\ Len(ChannelForm) = 6
    /\ error = ERROR_NONE
    /\ Len(SwitchCallsOf(calls)) = 4
    /\ SwitchCallsOf(calls)
          = SwitchCallsOf(MainResult(ChannelForm, argv.env, before, regOK).calls)

(***************************************************************************)
(* Alias operations on names and serial numbers in either case             *)
(***************************************************************************)
Alias_ab == <<"a", "b">>

Alias_aB == <<"a", "B">>

Alias_AB_Upper == <<"A", "B">>

SN_5xarz == <<"5", "x", "a", "r", "z">>

SN_6Qmbs == <<"6", "Q", "m", "b", "s">>

\* the alias AB and the alias #1 as the command line may spell them
CaseAliases == {Alias_ab, Alias_aB, Alias_AB_Upper, Alias_1}

\* the serial numbers 5XARZ and 6QMBS as the command line may spell them
CaseSernums == {SN_5XARZ, SN_5xarz, SN_6QMBS, SN_6Qmbs}

\* tokens handed to GetAliasSernum: the aliases and a serial number in
\* either case
CaseTokens == CaseAliases \cup {SN_5XARZ, SN_5xarz}

NextCase ==
    \/ \E a \in CaseAliases, s \in CaseSernums : DoAssign(a, s)
    \/ \E a \in CaseAliases : DoRemove(a)
    \/ DoList
    \/ \E t \in CaseTokens : DoResolve(t)

SpecCase == Init /\ [][NextCase]_vars

\* a and b are the same string up to the case of their letters
SameButCase(a, b) ==
    /\ Len(a) = Len(b)
    /\ \A i \in DOMAIN a :
          \/ a[i] = b[i]
          \/ \E k \in DOMAIN UpperSeq : {a[i], b[i]} = {UpperSeq[k], LowerSeq[k]}

\* C22: the alias operations do not depend on the case of their input.
\* Assign(A', S') for any spelling A' of A and S' of S leaves the persisted
\* list that Assign(A, S) leaves, Remove(A') the list that Remove(A) leaves,
\* Resolve(A') returns what Resolve(A) returns; the persisted list never
\* holds a lower-case letter.
C22_CaseInsensitive ==
    /\ \A i \in DOMAIN registry.value : registry.value[i] \notin Lower
    /\ last.op = "Assign"
          => \A a \in CaseAliases, s \in CaseSernums :
                (SameButCase(a, last.alias) /\ SameButCase(s, last.sernum))
                    => AssignAlias(a, s, before, regOK).reg = registry
    /\ last.op = "Remove"
          => \A a \in CaseAliases :
                SameButCase(a, last.alias)
                    => RemoveAlias(a, before, regOK).reg = registry
    /\ last.op = "Resolve"
          => \A t \in CaseTokens :
                SameButCase(t, last.alias)
                    => GetAliasSernum(t, before, regOK).sernum = last.ret

\* C22 witness: AB is bound to 6QMBS and Assign(aB, 5xarz) has put AB=5XARZ
\* in its place, the list it leaves has no entry in lower case
C22_Witness ==
    /\ last.op = "Assign"
    /\ last.alias = Alias_aB
    /\ last.sernum = SN_5xarz
    /\ <<Alias_AB_Upper, SN_6QMBS>> \in {Loaded(before)[i] : i \in DOMAIN Loaded(before)}
    /\ Loaded(registry)[1] = <<Alias_AB_Upper, SN_5XARZ>>
    /\ \A i \in DOMAIN Loaded(registry) : i > 1 => Loaded(registry)[i][1] # Alias_AB_Upper

(***************************************************************************)
(* The first read of a fresh installation                                  *)
(***************************************************************************)
\* the persisted value with empty content
EmptyList == [present |-> TRUE, value |-> <<>>]

\* C23: an alias operation that finds no persisted value creates the value
\* with empty content when it reads, and then does what it does on an empty
\* list: the value exists afterwards, the store and the answer are those of
\* the same operation on the empty list, with one write more (the creation).
C23_ReadCreatesValue ==
    (last.op # "None" /\ ~before.present)
    => /\ registry.present
       /\ last.op = "Assign"
             => \E e \in {AssignAlias(last.alias, last.sernum, EmptyList, regOK)} :
                   registry = e.reg /\ last.writes = e.writes + 1
       /\ last.op = "Remove"
             => \E e \in {RemoveAlias(last.alias, EmptyList, regOK)} :
                   registry = e.reg /\ last.writes = e.writes + 1
                       /\ registry = EmptyList
       /\ last.op = "List"
             => \E e \in {ListAlias(EmptyList, regOK)} :
                   registry = e.reg /\ last.writes = e.writes + 1
                       /\ last.ret = e.lines /\ registry = EmptyList
       /\ last.op = "Resolve"
             => \E e \in {GetAliasSernum(last.alias, EmptyList, regOK)} :
                   registry = e.reg /\ last.writes = e.writes + 1
                       /\ last.ret = e.sernum /\ registry = EmptyList

\* C23 witness: Assign(#1, 6QMBS) without a persisted value wrote twice, the
\* empty value and then the list #1=6QMBS
C23_Witness ==
    /\ last.op = "Assign"
    /\ ~before.present
    /\ last.writes = 2
    /\ registry.present
    /\ Loaded(registry) = <<(<<Alias_1, SN_6QMBS>>)>>

(***************************************************************************)
(* Alias operations on lists that earlier runs have left                   *)
(***************************************************************************)
\* the entry ALIAS=SERNUM
Entry(alias, sernum) == alias \o <<"=">> \o sernum

\* an alias of 240 characters: with the entry of #1 in front of its own the
\* list is exactly MAX_SZ_RESULT_LENGTH characters long
AliasFillsValue == Rep("Z", MAX_SZ_RESULT_LENGTH - 15)

\* lists left by earlier runs: none, one entry, two entries, two entries of
\* #1 (left by two runs side by side), and the list of Assign(Z..Z, 5XARZ)
\* followed by Assign(#1, 6QMBS), which fills the value to its last character
StoredLists ==
    {<<>>,
     Entry(Alias_1, SN_6QMBS),
     Entry(Alias_1, SN_6QMBS) \o <<",">> \o Entry(Alias_2, SN_5XARZ),
     Entry(Alias_1, SN_5XARZ) \o <<",">> \o Entry(Alias_1, SN_6QMBS),
     Entry(Alias_1, SN_6QMBS) \o <<",">> \o Entry(AliasFillsValue, SN_5XARZ)}

InitStored ==
    /\ registry \in {[present |-> TRUE, value |-> v] : v \in StoredLists}
    /\ regOK = AllOK
    /\ before = registry
    /\ prev = Called(NoOp)
    /\ last = NoOp
    /\ order = <<>>
    /\ argv = NoRun
    /\ error = ERROR_NONE
    /\ calls = <<>>
    /\ stdout = <<>>
    /\ inst = NoInstances
    /\ rt = NoRoundTrip
    /\ pc = "idle"

NextStored ==
    \/ \E a \in ConcAliases, s \in Sernums : DoAssign(a, s)
    \/ \E a \in ConcAliases : DoRemove(a)
    \/ DoList
    \/ \E t \in ConcAliases \cup {AliasFillsValue} : DoResolve(t)

SpecStored == InitStored /\ [][NextStored]_vars

\* the entries of a list without those of the alias
WithoutAlias(entries, alias) == SelectSeq(entries, LAMBDA p : p[1] # alias)

\* C24 (as claimed): Remove(A) on a list with one or more entries of A writes
\* back a list without an entry of A in which every other entry stands once,
\* with its serial number and in its place among the others.
C24_RemoveKeepsOthers ==
    (/\ last.op = "Remove"
     /\ before.present
     /\ ToUpperStr(last.alias) \in AliasesOf(before.value))
    => /\ last.writes >= 1
       /\ Pairs(registry.value) = WithoutAlias(Pairs(before.value), ToUpperStr(last.alias))

\* C24 for the lists that can be read back (shorter than
\* MAX_SZ_RESULT_LENGTH characters): one write, of the list as claimed
C24_ReadableLists ==
    (/\ last.op = "Remove"
     /\ before.present
     /\ Len(before.value) < MAX_SZ_RESULT_LENGTH
     /\ ToUpperStr(last.alias) \in AliasesOf(before.value))
    => /\ last.writes = 1
       /\ Pairs(registry.value) = WithoutAlias(Pairs(before.value), ToUpperStr(last.alias))

\* Remove(#1) on a list with two entries of #1 and one of #2 in between or
\* around them left the entry of #2 alone
C24_DuplicatesRemoved ==
    /\ last.op = "Remove"
    /\ last.alias = Alias_1
    /\ Len(SelectSeq(Pairs(before.value), LAMBDA p : p[1] = Alias_1)) = 2
    /\ Len(Pairs(before.value)) = 3
    /\ Len(Pairs(registry.value)) = 1

(***************************************************************************)
(* Alias operations while calls of the registry API fail                   *)
(***************************************************************************)
\* which of RegGetValueW, RegCreateKeyW/RegSetValueExW in ReadRegSZ and
\* RegCreateKeyW/RegSetValueExW in WriteRegSZ succeed
ApiOutcomes == [get : BOOLEAN, create : BOOLEAN, set : BOOLEAN]

\* no value, the empty list or the list #2=5XARZ; the registry API fails in
\* the same way during the whole behaviour
InitFail ==
    /\ registry \in {AbsentValue, EmptyList,
                     [present |-> TRUE, value |-> Entry(Alias_2, SN_5XARZ)]}
    /\ regOK \in ApiOutcomes
    /\ before = registry
    /\ prev = Called(NoOp)
    /\ last = NoOp
    /\ order = <<>>
    /\ argv = NoRun
    /\ error = ERROR_NONE
    /\ calls = <<>>
    /\ stdout = <<>>
    /\ inst = NoInstances
    /\ rt = NoRoundTrip
    /\ pc = "idle"

SpecFail == InitFail /\ [][NextStored]_vars

\* C25 (as claimed): when the read of the persisted list fails during
\* Assign(A, S), the value that Assign writes is the single entry A=S, as on
\* an empty list.  The read fails when RegGetValueW fails; the write is the
\* WriteRegSZ at the end of AssignAlias, taken here where it succeeds.
C25_FailedReadWritesEntry ==
    (/\ last.op = "Assign"
     /\ ~RegGetValueW(before, regOK)
     /\ regOK.set)
    => registry = [present |-> TRUE,
                   value   |-> Entry(ToUpperStr(last.alias), ToUpperStr(last.sernum))]

\* C25 where ReadRegSZ can create the default value after the failed read:
\* ReadRegSZ returns true with the empty string and A=S is written
C25_DefaultCreated ==
    (/\ last.op = "Assign"
     /\ ~RegGetValueW(before, regOK)
     /\ regOK.create
     /\ regOK.set)
    => registry = [present |-> TRUE,
                   value   |-> Entry(ToUpperStr(last.alias), ToUpperStr(last.sernum))]

\* ReadRegSZ returned false during Assign(#1, 6QMBS) on the list #2=5XARZ and
\* the empty string was written over the list
C25_EmptyWritten ==
    /\ last.op = "Assign"
    /\ ~regOK.get /\ ~regOK.create /\ regOK.set
    /\ before.value = Entry(Alias_2, SN_5XARZ)
    /\ registry = EmptyList
    /\ last.writes = 1

(***************************************************************************)
(* Assign and the bindings of the other aliases                            *)
(***************************************************************************)
\* the alias has an entry in the list that a read of r returns
BoundIn(alias, r) == \E i \in DOMAIN Loaded(r) : Loaded(r)[i][1] = alias

\* C26 (as claimed): Assign(A, S) changes the binding of A only.  Every
\* other alias B that was bound before resolves to the same serial number
\* after the assignment, whatever the length of the list.
C26_OtherBindingsKept ==
    last.op = "Assign"
    => \A B \in Aliases :
          (B # ToUpperStr(last.alias) /\ BoundIn(B, before))
              => GetAliasSernum(B, registry, regOK).sernum
                     = GetAliasSernum(B, before, regOK).sernum

\* C26 for the assignments whose list stays shorter than
\* MAX_SZ_RESULT_LENGTH characters
C26_ShortLists ==
    (/\ last.op = "Assign"
     /\ Len(Entry(ToUpperStr(last.alias), ToUpperStr(last.sernum))) + 1
            + Len(before.value) < MAX_SZ_RESULT_LENGTH)
    => \A B \in Aliases :
          (B # ToUpperStr(last.alias) /\ BoundIn(B, before))
              => GetAliasSernum(B, registry, regOK).sernum
                     = GetAliasSernum(B, before, regOK).sernum

\* #1 was bound to 5XARZ and the assignment of the alias of 248 characters
\* left a list in which #1 no longer resolves
C26_BindingLost ==
    /\ last.op = "Assign"
    /\ last.alias = AliasAtLimit
    /\ GetAliasSernum(Alias_1, before, regOK).sernum = SN_5XARZ
    /\ GetAliasSernum(Alias_1, registry, regOK).sernum = <<>>

(***************************************************************************)
(* Two instances that assign the same alias                                *)
(***************************************************************************)
\* the number of entries of the alias in the persisted list
EntriesOf(alias) ==
    Cardinality({k \in DOMAIN Pairs(registry.value) : Pairs(registry.value)[k][1] = alias})

\* both instances are through with an assignment of the same alias
BothAssignedSame ==
    /\ BothDone
    /\ \A i \in Instances : inst.p[i].op = "Assign"
    /\ inst.p[1].alias = inst.p[2].alias

\* C27 (as claimed): when two instances each run Assign on the same alias A,
\* whatever the order of their reads and writes of the store, the list they
\* leave has at most one entry of A.
C27_UniqueUnderConcurrency ==
    BothAssignedSame => EntriesOf(inst.p[1].alias) <= 1

\* two instances assigned #1, one to 6QMBS and one to 5XARZ, and the list
\* they left has both entries
C27_TwoEntries ==
    /\ BothAssignedSame
    /\ inst.p[1].alias = Alias_1
    /\ inst.p[1].sernum # inst.p[2].sernum
    /\ EntriesOf(Alias_1) = 2
    /\ Len(Pairs(registry.value)) = 2

(***************************************************************************)
(* Runs with alias names that hold '@', and SET runs that name a module    *)
(* more than once                                                          *)
(***************************************************************************)
Alias_X == <<"X">>

Alias_X1 == <<"X", "@", "1">>

\* ALIAS: X@1=6QMBS  x=5XARZ  -X@1
NameAliasTokens ==
    {Entry(Alias_X1, SN_6QMBS), Entry(<<"x">>, SN_5XARZ), <<"-">> \o Alias_X1}

\* QUERY: X@1  X  6QMBS@1
NameQueryTokens == {Alias_X1, Alias_X, SN_6QMBS \o <<"@", "1">>}

\* SET: 6QMBS  6QMBS:01  6QMBS:X1  5XARZ:1  8=1  1=1
NameSetTokens ==
    {SN_6QMBS,
     SN_6QMBS \o <<":", "0", "1">>,
     SN_6QMBS \o <<":", "X", "1">>,
     SN_5XARZ \o <<":", "1">>,
     <<"8", "=", "1">>, <<"1", "=", "1">>}

NameCommandLines ==
    {<<W_ALIAS>> \o a : a \in SeqsUpTo(NameAliasTokens, MaxArgs)}
        \cup {<<W_QUERY>> \o a : a \in SeqsUpTo(NameQueryTokens, MaxArgs)}
        \cup {<<W_SET>> \o a : a \in SeqsUpTo(NameSetTokens, MaxArgs)}

MainNames == MainOf(NameCommandLines, Environments)

NextNames ==
    \/ MainNames
    \/ NextProcess

SpecNames == Init /\ [][NextNames]_vars

\* C28 (as claimed): an alias A that the ALIAS command accepted and bound to
\* the serial number S of an enumerated module addresses that module in
\* QUERY: the run QUERY A queries all channels of module S.
C28_AliasAddressesModule ==
    (/\ IsQueryRun
     /\ Len(argv.args) = 2
     /\ regex_alias_name(argv.args[2])
     /\ BoundIn(ToUpperStr(argv.args[2]), before)
     /\ Enumerated(ResolvedSernum(argv.args[2])))
    => /\ error \in {ERROR_NONE, ERROR_NO_DRIVER_INIT}
       /\ argv.queries = <<[sn |-> ResolvedSernum(argv.args[2]), q |-> <<>>]>>

\* C28 for the alias names that do not end in '@' or ':' and digits 1-8
C28_NamesWithoutChannelList ==
    (/\ IsQueryRun
     /\ Len(argv.args) = 2
     /\ regex_alias_name(argv.args[2])
     /\ ~regex_query_chlist(argv.args[2]).found
     /\ BoundIn(ToUpperStr(argv.args[2]), before)
     /\ Enumerated(ResolvedSernum(argv.args[2])))
    => /\ error \in {ERROR_NONE, ERROR_NO_DRIVER_INIT}
       /\ argv.queries = <<[sn |-> ResolvedSernum(argv.args[2]), q |-> <<>>]>>

\* X@1 is bound to the attached module 6QMBS, X is bound to 5XARZ, and
\* QUERY X@1 has asked for channel 1 of 5XARZ
C28_OtherModuleQueried ==
    /\ IsQueryRun
    /\ argv.args = <<W_QUERY, Alias_X1>>
    /\ ResolvedSernum(Alias_X1) = SN_6QMBS
    /\ Enumerated(SN_6QMBS)
    /\ error = ERROR_NONE
    /\ argv.queries = <<[sn |-> SN_5XARZ, q |-> <<"1">>]>>

\* X@1 is bound to the attached module 6QMBS, X is not bound, and QUERY X@1
\* has ended with BAD_SERNUM
C28_AliasNotFound ==
    /\ IsQueryRun
    /\ argv.args = <<W_QUERY, Alias_X1>>
    /\ ResolvedSernum(Alias_X1) = SN_6QMBS
    /\ Enumerated(SN_6QMBS)
    /\ error = ERROR_BAD_SERNUM

(***************************************************************************)
(* SET runs that name a module more than once                              *)
(***************************************************************************)
\* the channel map old with the channels of new put over it
Over(old, new) ==
    [c \in DOMAIN old \cup DOMAIN new |-> IF c \in DOMAIN new THEN new[c] ELSE old[c]]

\* the module maps mods with map m for module sn: put over what the module
\* has (merge) or in place of it
PutModule(mods, sn, m, merge) ==
    [x \in DOMAIN mods \cup {sn} |->
        IF x # sn THEN mods[x]
        ELSE IF merge /\ sn \in DOMAIN mods THEN Over(mods[sn], m)
        ELSE m]

\* the channel map a TOKEN:PATTERN token stands for
PatternSpec(P) == [c \in 1..Len(P) |-> LogicOf(P[c])]

\* the channel map a CH=STATE token stands for
ChannelSpec(ch, state) ==
    [c \in {DigitValue(ch)} |-> IF ToUpperStr(state) \in OnVals THEN "H" ELSE "L"]

\* the module maps after the tokens i.. of a SET command: a module token
\* makes its module the current one, TOKEN:PATTERN does so too and puts its
\* map over (merge) or in place of the map of the module, CH=STATE puts its
\* channel over the map of the current module
RECURSIVE TokensSpec(_, _, _, _, _)
TokensSpec(args, i, cur, mods, merge) ==
    IF i > Len(args) THEN mods
    ELSE IF regex_alias_name(args[i])
    THEN TokensSpec(args, i + 1, ResolvedSernum(args[i]), mods, merge)
    ELSE IF regex_sernum_pattern(args[i]).found
    THEN TokensSpec(args, i + 1, ResolvedSernum(regex_sernum_pattern(args[i]).m1),
                    PutModule(mods, ResolvedSernum(regex_sernum_pattern(args[i]).m1),
                              PatternSpec(regex_sernum_pattern(args[i]).m2), merge),
                    merge)
    ELSE IF regex_ch_set(args[i]).found
    THEN TokensSpec(args, i + 1, cur,
                    PutModule(mods, cur,
                              ChannelSpec(regex_ch_set(args[i]).m1[1],
                                          regex_ch_set(args[i]).m2), TRUE),
                    merge)
    ELSE mods

\* a SET run whose tokens were all taken without error
SetParsed == IsSetRun /\ error \in {ERROR_NONE, ERROR_NO_DRIVER_INIT}

\* no channel of a module is switched twice in the run
SwitchedOnce ==
    \A i, j \in DOMAIN calls :
        (/\ calls[i].fn \in SwitchFns /\ calls[j].fn \in SwitchFns
         /\ calls[i].sn = calls[j].sn /\ calls[i].ch = calls[j].ch) => i = j

\* C29 (as claimed): in one SET run the map of a module is the union of what
\* all its TOKEN:PATTERN and CH=STATE tokens specify, a later token
\* overriding an earlier one for the channels it names only; every channel
\* of a module is switched at most once.
C29_TokensAccumulate ==
    SetParsed
    => /\ argv.module = TokensSpec(argv.args, 2, <<>>, <<>>, TRUE)
       /\ SwitchedOnce

\* C29 (amended): a TOKEN:PATTERN token replaces what earlier tokens
\* specified for its module, the map of the module is then the pattern
\* alone; CH=STATE tokens are put over the map of the current module, for
\* their channel only; every channel of a module is switched at most once.
C29_PatternReplaces ==
    SetParsed
    => /\ argv.module = TokensSpec(argv.args, 2, <<>>, <<>>, FALSE)
       /\ SwitchedOnce

\* C29 witness: set 6QMBS 8=1 6QMBS:01 went through; the map of 6QMBS is
\* channel 1 Clear and channel 2 Set, channel 8 is not in it and was not
\* switched
C29_Witness ==
    /\ IsSetRun
    /\ argv.args = <<W_SET, SN_6QMBS, <<"8", "=", "1">>, SN_6QMBS \o <<":", "0", "1">> >>
    /\ error = ERROR_NONE
    /\ argv.module[SN_6QMBS] = <<"L", "H">>
    /\ ChannelsCalled("usb_relay_device_open_one_relay_channel", SN_6QMBS) = {2}
    /\ ChannelsCalled("usb_relay_device_close_one_relay_channel", SN_6QMBS) = {1}

(***************************************************************************)
(* Commands that need a module, without a module                           *)
(***************************************************************************)
\* the run that ended had a first word that is neither a help word nor an
\* enumerate word, and the enumeration found no module
RunWithoutModules ==
    /\ pc = "exited"
    /\ Len(argv.args) >= 1
    /\ ~regex_help(argv.args[1])
    /\ ~regex_enumerate(argv.args[1])
    /\ argv.env.devices = <<>>

\* C30: when the first word is neither a help word nor an enumerate word
\* and the enumeration finds no module, the run ends with NO_DEVICES (-2)
\* whatever its tokens are: no token is taken (no module map, no query, no
\* token error), nothing is listed, no alias is assigned or removed and the
\* persisted value is as it was, not even created; the only calls are those
\* of the enumeration.
C30_NoDevicesFirst ==
    RunWithoutModules
    => /\ error = ERROR_NO_DEVICES
       /\ registry = before
       /\ stdout = <<>>
       /\ argv.module = <<>>
       /\ argv.queries = <<>>
       /\ calls = <<Call("usb_relay_init", <<>>, 0),
                    Call("usb_relay_device_enumerate", <<>>, 0),
                    Call("usb_relay_exit", <<>>, 0)>>

\* C30 witness: ALIAS with an assignment as its last token ran without a
\* module and without a persisted value; it ended with NO_DEVICES and there
\* is still no persisted value
C30_Witness ==
    /\ RunWithoutModules
    /\ IsAliasRun(1)
    /\ regex_alias_assign(LastToken).found
    /\ ~before.present
    /\ ~registry.present
    /\ error = ERROR_NO_DEVICES

\* the same for a word that is no command and for SET with a malformed token
C30_OtherWords ==
    /\ RunWithoutModules
    /\ error = ERROR_NO_DEVICES
    /\ \/ argv.args = <<W_BOGUS>>
       \/ IsSetRun /\ ~regex_alias_name(LastToken)
              /\ ~regex_sernum_pattern(LastToken).found /\ ~regex_ch_set(LastToken).found

====
